---- MODULE Spec2Model ----
(***************************************************************************)
(* go-cpms: the OCPP 1.6 central system.  The state is the PostgreSQL      *)
(* store (charge_points, connectors, transactions, meter_values,           *)
(* ocpp_messages), the process-wide transaction id counter, the transport's *)
(* directory of connected devices and its outstanding calls.  One action    *)
(* per connection event, inbound handler and dispatcher command.  The       *)
(* created_at / updated_at stamps of the rows are not kept: nothing reads    *)
(* them.                                                                    *)
(***************************************************************************)
EXTENDS Integers, Sequences, FiniteSets, TLC

\* ------------------------------------------------------------------ bounds
MaxTime == 3
MaxStarts == 2
MaxCalls == 1
MaxRows == 1

\* ------------------------------------------------------- program constants
\* var lastTransactionID = 1000
InitialTransactionID == 1000
\* getEnv("HEARTBEAT_INTERVAL", "600")
HeartbeatInterval == 600
\* the zero time.Time of a models.ChargePoint built without LastHeartbeat
ZeroTime == 0

\* ------------------------------------------------------------------ inputs
CPs == {"CP-1", "CP-2"}

\* the device whose requests are followed one by one
Device == "CP-1"

BootRequests ==
  { [chargePointVendor |-> "Acme", chargePointModel |-> "X1",
     chargePointSerialNumber |-> "SN-1", firmwareVersion |-> "1.0"] }

StatusRequests ==
  { [connectorId |-> 1, status |-> "Available", errorCode |-> "NoError"] }

StartRequests ==
  { [connectorId |-> 1, idTag |-> "TAG1", meterStart |-> 100, timestamp |-> 1] }

\* a sampled value's Value is a string: the sequence of its characters
NoBatches == << >>

OneBatch ==
  << [timestamp |-> 1,
      sampledValue |-> << [value |-> <<"1", "2">>, measurand |-> "", unit |-> ""] >>] >>

TransactionIds == (InitialTransactionID + 1) .. (InitialTransactionID + MaxStarts)

StopRequests ==
  { [transactionId |-> x, meterStop |-> m[1], timestamp |-> m[2], transactionData |-> m[3]]
      : x \in TransactionIds, m \in {<<250, 1, NoBatches>>, <<500, 2, OneBatch>>} }

VARIABLES
  charge_points,      \* table charge_points: id -> row
  connectors,         \* table connectors: <<charge_point_id, id>> -> row
  transactions,       \* table transactions: id -> row
  meter_values,       \* table meter_values: sequence of rows (SERIAL id)
  ocpp_messages,      \* table ocpp_messages: sequence of rows (SERIAL id)
  lastTransactionID,  \* package variable of internal/ocpp
  now,                \* time.Now()
  connected,          \* the transport's directory of connected devices
  connecting,         \* per device: what a handleNewChargePoint in progress has read
  pc,                 \* per device: position of its StartTransaction handler
  local,              \* per device: locals of its StartTransaction handler
  confirmation,       \* what the last inbound handler returned
  lastEvent,          \* per device: was its last event a Connect (again), and was that write applied
  issued,             \* transaction ids returned by StartTransaction, in order
  calls,              \* outbound calls handed to the transport
  results             \* what each dispatcher invocation returned to its caller

vars == << charge_points, connectors, transactions, meter_values, ocpp_messages,
           lastTransactionID, now, connected, pc, local, confirmation,
           lastEvent, issued, calls, results, connecting >>

storeVars == << charge_points, connectors, transactions, meter_values, ocpp_messages >>
txnVars == << lastTransactionID, pc, local, issued >>
dispatchVars == << calls, results >>

\* ------------------------------------------------------------ small helpers
\* f with key k set to v (k is added to the domain when new)
Put(f, k, v) == [x \in (DOMAIN f) \cup {k} |-> IF x = k THEN v ELSE f[x]]

EmptyTable == [x \in {} |-> x]

\* lastEvent of a device whose last event was not a Connect
OtherEvent == [event |-> "other", applied |-> FALSE]

NoConfirmation == [cp |-> "", action |-> "", conf |-> [none |-> TRUE], err |-> "nil"]

\* ============================================================ State Store
\* INSERT INTO charge_points ... ON CONFLICT (id) DO UPDATE SET ...
\* connected_since = CASE WHEN charge_points.is_connected = FALSE AND $9 = TRUE
\*                   THEN $8 ELSE charge_points.connected_since END
SaveChargePointAlwaysStamp(tbl, cp, t) ==
  Put(tbl, cp.id, [ vendor |-> cp.vendor, model |-> cp.model,
                    serial_number |-> cp.serialNumber,
                    firmware_version |-> cp.firmwareVersion,
                    last_heartbeat |-> cp.lastHeartbeat,
                    registration_status |-> cp.registrationStatus,
                    connected_since |-> cp.connectedSince,
                    is_connected |-> cp.isConnected ])

\* ON CONFLICT (id) DO UPDATE SET is_connected, last_heartbeat only
SaveChargePointKeepsIdentity(tbl, cp, t) ==
  IF cp.id \in DOMAIN tbl
  THEN [tbl EXCEPT ![cp.id].is_connected = cp.isConnected,
                   ![cp.id].last_heartbeat = cp.lastHeartbeat]
  ELSE SaveChargePointAlwaysStamp(tbl, cp, t)

SaveChargePoint(tbl, cp, t) ==
  Put(tbl, cp.id, [ vendor |-> cp.vendor, model |-> cp.model,
                    serial_number |-> cp.serialNumber,
                    firmware_version |-> cp.firmwareVersion,
                    last_heartbeat |-> cp.lastHeartbeat,
                    registration_status |-> cp.registrationStatus,
                    connected_since |->
                      IF cp.id \in DOMAIN tbl
                      THEN IF tbl[cp.id].is_connected = FALSE /\ cp.isConnected = TRUE
                           THEN cp.connectedSince
                           ELSE tbl[cp.id].connected_since
                      ELSE cp.connectedSince,
                    is_connected |-> cp.isConnected ])

\* SELECT ... FROM charge_points WHERE id = $1, scanned into a models.ChargePoint
GetChargePoint(tbl, id) ==
  [ id |-> id, vendor |-> tbl[id].vendor, model |-> tbl[id].model,
    serialNumber |-> tbl[id].serial_number,
    firmwareVersion |-> tbl[id].firmware_version,
    lastHeartbeat |-> tbl[id].last_heartbeat,
    registrationStatus |-> tbl[id].registration_status,
    connectedSince |-> tbl[id].connected_since,
    isConnected |-> tbl[id].is_connected ]

\* UPDATE charge_points SET is_connected = ..., [connected_since = now,] updated_at WHERE id
UpdateChargePointConnectionStamps(tbl, id, isConn, t) ==
  IF id \notin DOMAIN tbl THEN tbl
  ELSE [tbl EXCEPT ![id].is_connected = isConn, ![id].connected_since = t]

UpdateChargePointConnectionUpsert(tbl, id, isConn, t) ==
  IF id \in DOMAIN tbl THEN [tbl EXCEPT ![id].is_connected = isConn]
  ELSE Put(tbl, id, [ vendor |-> "Unknown", model |-> "Unknown", serial_number |-> "",
                      firmware_version |-> "", last_heartbeat |-> ZeroTime,
                      registration_status |-> "Pending", connected_since |-> ZeroTime,
                      is_connected |-> isConn ])

UpdateChargePointConnection(tbl, id, isConn, t) ==
  IF id \notin DOMAIN tbl THEN tbl
  ELSE IF isConn
       THEN [tbl EXCEPT ![id].is_connected = TRUE, ![id].connected_since = t]
       ELSE [tbl EXCEPT ![id].is_connected = FALSE]

\* INSERT INTO charge_points ... ON CONFLICT (id) DO UPDATE SET last_heartbeat
UpdateHeartbeatUpsert(tbl, id, t) ==
  IF id \in DOMAIN tbl THEN [tbl EXCEPT ![id].last_heartbeat = t]
  ELSE Put(tbl, id, [ vendor |-> "Unknown", model |-> "Unknown", serial_number |-> "",
                      firmware_version |-> "", last_heartbeat |-> t,
                      registration_status |-> "Pending", connected_since |-> ZeroTime,
                      is_connected |-> FALSE ])

\* UPDATE charge_points SET last_heartbeat = $1, updated_at = $1 WHERE id = $2
UpdateHeartbeat(tbl, id, t) ==
  IF id \notin DOMAIN tbl THEN tbl
  ELSE [tbl EXCEPT ![id].last_heartbeat = t]

\* INSERT INTO connectors ... ON CONFLICT (charge_point_id, id) DO UPDATE SET
\* status, error_code, updated_at; charge_point_id REFERENCES charge_points(id)
SaveConnectorOk(cps, connector) == connector.chargePointId \in DOMAIN cps

\* UPDATE connectors SET status, error_code WHERE charge_point_id AND id
SaveConnectorUpdateOnly(tbl, connector, t) ==
  IF <<connector.chargePointId, connector.id>> \in DOMAIN tbl
  THEN Put(tbl, <<connector.chargePointId, connector.id>>,
           [status |-> connector.status, error_code |-> connector.errorCode])
  ELSE tbl

\* INSERT INTO connectors ... ON CONFLICT DO NOTHING
SaveConnectorInsertOnly(tbl, connector, t) ==
  IF <<connector.chargePointId, connector.id>> \in DOMAIN tbl
  THEN tbl
  ELSE Put(tbl, <<connector.chargePointId, connector.id>>,
           [status |-> connector.status, error_code |-> connector.errorCode])

SaveConnector(tbl, connector, t) ==
  Put(tbl, <<connector.chargePointId, connector.id>>,
      [status |-> connector.status, error_code |-> connector.errorCode])

\* a nullable column, as sql.NullTime / sql.NullInt32 read it
Null == [Valid |-> FALSE, Value |-> 0]
NotNull(v) == [Valid |-> TRUE, Value |-> v]

\* INSERT INTO transactions ... ON CONFLICT (id) DO UPDATE: no primary-key failure
StartTransactionOkReplaces(tbl, cps, conns, tx) ==
  /\ tx.chargePointId \in DOMAIN cps
  /\ <<tx.chargePointId, tx.connectorId>> \in DOMAIN conns

\* the transactions table without CONSTRAINT transaction_connector_fk
StartTransactionOkNoConnectorKey(tbl, cps, conns, tx) ==
  /\ tx.id \notin DOMAIN tbl
  /\ tx.chargePointId \in DOMAIN cps

\* INSERT INTO transactions: id is the PRIMARY KEY, charge_point_id REFERENCES
\* charge_points(id), (charge_point_id, connector_id) REFERENCES connectors
StartTransactionOk(tbl, cps, conns, tx) ==
  /\ tx.id \notin DOMAIN tbl
  /\ tx.chargePointId \in DOMAIN cps
  /\ <<tx.chargePointId, tx.connectorId>> \in DOMAIN conns

StartTransactionStatusStopped(tbl, tx, t) ==
  Put(tbl, tx.id, [ charge_point_id |-> tx.chargePointId, connector_id |-> tx.connectorId,
                    id_tag |-> tx.idTag, start_time |-> tx.startTime,
                    end_time |-> Null, meter_start |-> tx.meterStart,
                    meter_stop |-> Null, status |-> "Stopped" ])

StartTransaction(tbl, tx, t) ==
  Put(tbl, tx.id, [ charge_point_id |-> tx.chargePointId, connector_id |-> tx.connectorId,
                    id_tag |-> tx.idTag, start_time |-> tx.startTime,
                    end_time |-> Null, meter_start |-> tx.meterStart,
                    meter_stop |-> Null, status |-> tx.status ])

\* UPDATE transactions SET end_time, meter_stop, status = 'Completed', updated_at WHERE id
StopTransactionUpsert(tbl, id, endTime, meterStop, t) ==
  Put(tbl, id, [ charge_point_id |-> "", connector_id |-> 0, id_tag |-> "",
                 start_time |-> ZeroTime, end_time |-> NotNull(endTime),
                 meter_start |-> 0, meter_stop |-> NotNull(meterStop),
                 status |-> "Completed" ])

StopTransactionKeepsMeterStop(tbl, id, endTime, meterStop, t) ==
  IF id \notin DOMAIN tbl THEN tbl
  ELSE [tbl EXCEPT ![id].end_time = NotNull(endTime),
                   ![id].status = "Completed"]

\* ... WHERE id = $4 AND status = 'InProgress'
StopTransactionInProgressOnly(tbl, id, endTime, meterStop, t) ==
  IF id \notin DOMAIN tbl \/ tbl[id].status # "InProgress" THEN tbl
  ELSE [tbl EXCEPT ![id].end_time = NotNull(endTime),
                   ![id].meter_stop = NotNull(meterStop),
                   ![id].status = "Completed"]

StopTransaction(tbl, id, endTime, meterStop, t) ==
  IF id \notin DOMAIN tbl THEN tbl
  ELSE [tbl EXCEPT ![id].end_time = NotNull(endTime),
                   ![id].meter_stop = NotNull(meterStop),
                   ![id].status = "Completed"]

\* SELECT ... FROM transactions WHERE id = $1: the row as a models.Transaction, a
\* NULL end_time / meter_stop left at the Go zero value; an error when no row
GetTransaction(tbl, id) ==
  IF id \notin DOMAIN tbl THEN [err |-> "no rows in result set"]
  ELSE [ err |-> "nil", id |-> id,
         chargePointId |-> tbl[id].charge_point_id,
         connectorId |-> tbl[id].connector_id,
         idTag |-> tbl[id].id_tag, startTime |-> tbl[id].start_time,
         endTime |-> IF tbl[id].end_time.Valid THEN tbl[id].end_time.Value ELSE ZeroTime,
         meterStart |-> tbl[id].meter_start,
         meterStop |-> IF tbl[id].meter_stop.Valid THEN tbl[id].meter_stop.Value ELSE 0,
         status |-> tbl[id].status ]

\* INSERT INTO meter_values: transaction_id REFERENCES transactions(id),
\* charge_point_id REFERENCES charge_points(id), (charge_point_id, connector_id)
\* REFERENCES connectors; the Go int TransactionID is never sent as NULL
SaveMeterValueOk(txs, cps, conns, mv) ==
  /\ mv.transactionId \in DOMAIN txs
  /\ mv.chargePointId \in DOMAIN cps
  /\ <<mv.chargePointId, mv.connectorId>> \in DOMAIN conns

SaveMeterValue(tbl, mv, t) ==
  Append(tbl, [ transaction_id |-> mv.transactionId, charge_point_id |-> mv.chargePointId,
                connector_id |-> mv.connectorId, timestamp |-> mv.timestamp,
                value |-> mv.value, unit |-> mv.unit, measurand |-> mv.measurand ])

\* ------------------------------------------------------------ parseFloat64
\* fmt.Sscanf(s, "%f", &f): skip leading blanks, take the longest float token
\* (sign, digits, ".", digits), convert it; what follows the token is left unread.
\* A float64 is held in tenths.  The inputs use the characters below only (no
\* exponent, hexadecimal, "nan" or "inf").
Digits == {"0", "1", "2", "3", "4", "5", "6", "7", "8", "9"}

DigitVal(c) == CHOOSE n \in 0..9 : <<"0", "1", "2", "3", "4", "5", "6", "7", "8", "9">>[n + 1] = c

RECURSIVE SkipSpace(_)
SkipSpace(s) == IF s # << >> /\ Head(s) = " " THEN SkipSpace(Tail(s)) ELSE s

RECURSIVE DigitPrefixLen(_)
DigitPrefixLen(s) ==
  IF s = << >> \/ Head(s) \notin Digits THEN 0 ELSE 1 + DigitPrefixLen(Tail(s))

RECURSIVE DigitsValue(_)
DigitsValue(s) ==
  IF s = << >> THEN 0
  ELSE 10 * DigitsValue(SubSeq(s, 1, Len(s) - 1)) + DigitVal(s[Len(s)])

parseFloat64(s) ==
  LET s1 == SkipSpace(s)
      signed == s1 # << >> /\ Head(s1) \in {"+", "-"}
      s2 == IF signed THEN Tail(s1) ELSE s1
      n == DigitPrefixLen(s2)
      s3 == SubSeq(s2, n + 1, Len(s2))
      period == s3 # << >> /\ Head(s3) = "."
      s4 == IF period THEN Tail(s3) ELSE s3
      m == IF period THEN DigitPrefixLen(s4) ELSE 0
      tenths == 10 * DigitsValue(SubSeq(s2, 1, n)) + (IF m > 0 THEN DigitVal(s4[1]) ELSE 0)
  IN IF s1 = << >> THEN [err |-> "unexpected EOF", f |-> 0]
     ELSE IF n + m = 0 THEN [err |-> "invalid syntax", f |-> 0]
     ELSE [err |-> "nil", f |-> IF Head(s1) = "-" THEN 0 - tenths ELSE tenths]

\* ========================================================== Audit Logger
\* json.Marshal of a Go value: an object when the value is a struct, a JSON
\* string literal when the value is already a string
JsonMarshal(v) ==
  IF DOMAIN v = {"text"} THEN [jsonString |-> v.text] ELSE [jsonObject |-> v]

\* string(payloadJSON): the encoded bytes held as a Go string
GoString(encoded) == [text |-> encoded]

\* a log that keeps one row per charge point: DELETE the device's rows, then INSERT
LogOCPPMessageLatestOnly(log, cps, msg, ok) ==
  IF ok /\ msg.charge_point_id \in DOMAIN cps
  THEN Append(SelectSeq(log, LAMBDA e : e.charge_point_id # msg.charge_point_id),
              [ charge_point_id |-> msg.charge_point_id,
                message_type |-> msg.message_type,
                action |-> msg.action, request_id |-> msg.request_id,
                payload |-> JsonMarshal(msg.payload),
                direction |-> msg.direction, timestamp |-> msg.timestamp ])
  ELSE log

\* INSERT INTO ocpp_messages; charge_point_id REFERENCES charge_points(id)
LogOCPPMessage(log, cps, msg, ok) ==
  IF ok /\ msg.charge_point_id \in DOMAIN cps
  THEN Append(log, [ charge_point_id |-> msg.charge_point_id,
                     message_type |-> msg.message_type,
                     action |-> msg.action, request_id |-> msg.request_id,
                     payload |-> JsonMarshal(msg.payload),
                     direction |-> msg.direction, timestamp |-> msg.timestamp ])
  ELSE log

logMessage(log, cps, chargePointID, messageType, action, payload, direction, t, ok) ==
  LogOCPPMessage(log, cps,
                 [ charge_point_id |-> chargePointID, message_type |-> messageType,
                   action |-> action, request_id |-> "",
                   payload |-> GoString(JsonMarshal(payload)),
                   direction |-> direction, timestamp |-> t ], ok)

LogRequest(log, cps, chargePointID, action, payload, t, ok) ==
  logMessage(log, cps, chargePointID, "Request", action, payload, "Inbound", t, ok)

LogResponseAsRequest(log, cps, chargePointID, action, payload, t, ok) ==
  logMessage(log, cps, chargePointID, "Request", action, payload, "Outbound", t, ok)

LogResponse(log, cps, chargePointID, action, payload, t, ok) ==
  logMessage(log, cps, chargePointID, "Response", action, payload, "Outbound", t, ok)

\* what a handler hands back to the transport: (confirmation, err); writesOk tells
\* whether every store and audit write of the handler succeeded
HandlerReturnStoreError(d, action, conf, writesOk) ==
  [cp |-> d, action |-> action, conf |-> conf,
   err |-> IF writesOk THEN "nil" ELSE "store error"]

HandlerReturn(d, action, conf, writesOk) ==
  [cp |-> d, action |-> action, conf |-> conf, err |-> "nil"]

\* ==================================================== connection lifecycle
\* handleNewChargePoint: okGet, okSave are the outcomes of the two store calls
handleNewChargePoint(d, okGet, okSave) ==
  LET found == okGet /\ d \in DOMAIN charge_points
      chargePoint ==
        IF ~found
        THEN [ id |-> d, vendor |-> "Unknown", model |-> "Unknown",
               serialNumber |-> "", firmwareVersion |-> "",
               lastHeartbeat |-> ZeroTime, registrationStatus |-> "Pending",
               isConnected |-> TRUE, connectedSince |-> now ]
        ELSE [GetChargePoint(charge_points, d) EXCEPT
                !.isConnected = TRUE, !.connectedSince = now]
  IN /\ charge_points' = IF okSave THEN SaveChargePoint(charge_points, chargePoint, now)
                                   ELSE charge_points
     /\ connected' = connected \cup {d}
     /\ lastEvent' = [lastEvent EXCEPT ![d] =
                        [event |-> IF lastEvent[d].event = "other" THEN "Connect"
                                                                   ELSE "ConnectAgain",
                         applied |-> okSave]]
     /\ UNCHANGED << connectors, transactions, meter_values, ocpp_messages, now,
                     confirmation, txnVars, dispatchVars, connecting >>

\* handleChargePointDisconnected
handleChargePointDisconnected(d, okUpdate) ==
  /\ charge_points' = IF okUpdate
                      THEN UpdateChargePointConnection(charge_points, d, FALSE, now)
                      ELSE charge_points
  /\ connected' = connected \ {d}
  /\ lastEvent' = [lastEvent EXCEPT ![d] = OtherEvent]
  /\ UNCHANGED << connectors, transactions, meter_values, ocpp_messages, now,
                  confirmation, txnVars, dispatchVars, connecting >>

\* ========================================================= inbound handlers
\* a transport that hands a device's next request over while an earlier one is
\* still being handled
IdleOrBusy(d) == pc[d] \in {"idle", "store", "return", "samples"}

\* a device's inbound requests are handled one at a time
Idle(d) == pc[d] = "idle"

\* a registration policy: a booting device stays Pending until it is approved
OnBootNotificationPending(d, request, okReq, okSave, okResp) ==
  LET chargePoint ==
        [ id |-> d, vendor |-> request.chargePointVendor,
          model |-> request.chargePointModel,
          serialNumber |-> request.chargePointSerialNumber,
          firmwareVersion |-> request.firmwareVersion,
          lastHeartbeat |-> now, registrationStatus |-> "Pending",
          isConnected |-> TRUE, connectedSince |-> now ]
      conf == [currentTime |-> now, interval |-> HeartbeatInterval, status |-> "Pending"]
      log1 == LogRequest(ocpp_messages, charge_points, d, "BootNotification", request, now, okReq)
      cps1 == IF okSave THEN SaveChargePoint(charge_points, chargePoint, now)
                        ELSE charge_points
  IN /\ Idle(d)
     /\ charge_points' = cps1
     /\ ocpp_messages' = LogResponse(log1, cps1, d, "BootNotification", conf, now, okResp)
     /\ confirmation' = HandlerReturn(d, "BootNotification", conf, okReq /\ okResp /\ (okSave))
     /\ lastEvent' = [lastEvent EXCEPT ![d] = OtherEvent]
     /\ UNCHANGED << connectors, transactions, meter_values, now, connected,
                     txnVars, dispatchVars, connecting >>

OnBootNotification(d, request, okReq, okSave, okResp) ==
  LET chargePoint ==
        [ id |-> d, vendor |-> request.chargePointVendor,
          model |-> request.chargePointModel,
          serialNumber |-> request.chargePointSerialNumber,
          firmwareVersion |-> request.firmwareVersion,
          lastHeartbeat |-> now, registrationStatus |-> "Accepted",
          isConnected |-> TRUE, connectedSince |-> now ]
      conf == [currentTime |-> now, interval |-> HeartbeatInterval, status |-> "Accepted"]
      log1 == LogRequest(ocpp_messages, charge_points, d, "BootNotification", request, now, okReq)
      cps1 == IF okSave THEN SaveChargePoint(charge_points, chargePoint, now)
                        ELSE charge_points
  IN /\ Idle(d)
     /\ charge_points' = cps1
     /\ ocpp_messages' = LogResponse(log1, cps1, d, "BootNotification", conf, now, okResp)
     /\ confirmation' = HandlerReturn(d, "BootNotification", conf, okReq /\ okResp /\ (okSave))
     /\ lastEvent' = [lastEvent EXCEPT ![d] = OtherEvent]
     /\ UNCHANGED << connectors, transactions, meter_values, now, connected,
                     txnVars, dispatchVars, connecting >>

OnHeartbeat(d, okReq, okUpdate, okResp) ==
  LET conf == [currentTime |-> now]
      log1 == LogRequest(ocpp_messages, charge_points, d, "Heartbeat", [empty |-> TRUE], now, okReq)
      cps1 == IF okUpdate THEN UpdateHeartbeat(charge_points, d, now) ELSE charge_points
  IN /\ Idle(d)
     /\ charge_points' = cps1
     /\ ocpp_messages' = LogResponse(log1, cps1, d, "Heartbeat", conf, now, okResp)
     /\ confirmation' = HandlerReturn(d, "Heartbeat", conf, okReq /\ okResp /\ (okUpdate))
     /\ lastEvent' = [lastEvent EXCEPT ![d] = OtherEvent]
     /\ UNCHANGED << connectors, transactions, meter_values, now, connected,
                     txnVars, dispatchVars, connecting >>

OnStatusNotification(d, request, okReq, okSave, okResp) ==
  LET connector == [ id |-> request.connectorId, chargePointId |-> d,
                     status |-> request.status, errorCode |-> request.errorCode ]
      conf == [empty |-> TRUE]
      log1 == LogRequest(ocpp_messages, charge_points, d, "StatusNotification", request, now, okReq)
      applied == okSave /\ SaveConnectorOk(charge_points, connector)
  IN /\ Idle(d)
     /\ connectors' = IF applied THEN SaveConnector(connectors, connector, now) ELSE connectors
     /\ ocpp_messages' = LogResponse(log1, charge_points, d, "StatusNotification", conf, now, okResp)
     /\ confirmation' = HandlerReturn(d, "StatusNotification", conf, okReq /\ okResp /\ (applied))
     /\ lastEvent' = [lastEvent EXCEPT ![d] = OtherEvent]
     /\ UNCHANGED << charge_points, transactions, meter_values, now, connected,
                     txnVars, dispatchVars, connecting >>

\* one models.MeterValue per sampled value, as OnMeterValues and OnStopTransaction
\* build it
NewMeterValue(chargePointID, connectorId, transactionId, timestamp, sampledValue) ==
  LET parsed == parseFloat64(sampledValue.value)
  IN [ transactionId |-> transactionId, chargePointId |-> chargePointID,
       connectorId |-> connectorId, timestamp |-> timestamp,
       value |-> IF parsed.err = "nil" THEN parsed.f ELSE 0,
       unit |-> IF sampledValue.unit # "" THEN sampledValue.unit ELSE "Wh",
       measurand |-> IF sampledValue.measurand # "" THEN sampledValue.measurand
                     ELSE "Energy.Active.Import.Register" ]

\* for _, meterValue := range ... { for _, sampledValue := range meterValue.SampledValue
RECURSIVE Samples(_)
Samples(batches) ==
  IF batches = << >> THEN << >>
  ELSE [i \in 1..Len(Head(batches).sampledValue) |->
          [timestamp |-> Head(batches).timestamp, sampledValue |-> Head(batches).sampledValue[i]]]
       \o Samples(Tail(batches))

\* the SaveMeterValue calls of one request, in order; oks[i] is the outcome of call i
RECURSIVE SaveMeterValues(_, _, _, _, _, _, _)
SaveMeterValues(tbl, mvs, oks, txs, cps, conns, t) ==
  IF mvs = << >> THEN tbl
  ELSE SaveMeterValues(
         IF Head(oks) /\ SaveMeterValueOk(txs, cps, conns, Head(mvs))
         THEN SaveMeterValue(tbl, Head(mvs), t) ELSE tbl,
         Tail(mvs), Tail(oks), txs, cps, conns, t)

\* transactionId is << >> when the request carries none
OnMeterValues(d, request, okReq, oks, okResp) ==
  LET conf == [empty |-> TRUE]
      smp == Samples(request.meterValue)
      mvs == [i \in 1..Len(smp) |->
                NewMeterValue(d, request.connectorId,
                              IF request.transactionId # << >> THEN request.transactionId[1] ELSE 0,
                              smp[i].timestamp, smp[i].sampledValue)]
      log1 == LogRequest(ocpp_messages, charge_points, d, "MeterValues", request, now, okReq)
  IN /\ Idle(d)
     /\ meter_values' = SaveMeterValues(meter_values, mvs, oks, transactions,
                                        charge_points, connectors, now)
     /\ ocpp_messages' = LogResponse(log1, charge_points, d, "MeterValues", conf, now, okResp)
     /\ confirmation' = HandlerReturn(d, "MeterValues", conf, okReq /\ okResp /\ (\A i \in 1..Len(oks) : oks[i]))
     /\ lastEvent' = [lastEvent EXCEPT ![d] = OtherEvent]
     /\ UNCHANGED << charge_points, connectors, transactions, now, connected,
                     txnVars, dispatchVars, connecting >>

\* ---- OnStartTransaction; generateTransactionID is "lastTransactionID++; return
\* lastTransactionID" with no lock: a load, a store and the load of the result
StartsBegun == Len(issued) + Cardinality({d \in CPs : pc[d] # "idle"})

OnStartTransaction_load(d, request, okReq) ==
  /\ Idle(d)
  /\ StartsBegun < MaxStarts
  /\ ocpp_messages' = LogRequest(ocpp_messages, charge_points, d, "StartTransaction", request, now, okReq)
  /\ local' = [local EXCEPT ![d] = [request |-> request, loaded |-> lastTransactionID]]
  /\ pc' = [pc EXCEPT ![d] = "store"]
  /\ lastEvent' = [lastEvent EXCEPT ![d] = OtherEvent]
  /\ UNCHANGED << charge_points, connectors, transactions, meter_values, now, connected,
                  confirmation, lastTransactionID, issued, dispatchVars, connecting >>

OnStartTransaction_store(d) ==
  /\ pc[d] = "store"
  /\ lastTransactionID' = local[d].loaded + 1
  /\ pc' = [pc EXCEPT ![d] = "return"]
  /\ UNCHANGED << storeVars, now, connected, confirmation, lastEvent, local, issued,
                  dispatchVars, connecting >>

\* the value generateTransactionID returns: the register it just stored, or the
\* variable read again
generateTransactionID(d) == {local[d].loaded + 1, lastTransactionID}

OnStartTransaction_return(d, okInsert, okResp) ==
  /\ pc[d] = "return"
  /\ \E id \in generateTransactionID(d) :
    LET request == local[d].request
        transaction == [ id |-> id, chargePointId |-> d, connectorId |-> request.connectorId,
                         idTag |-> request.idTag, startTime |-> request.timestamp,
                         meterStart |-> request.meterStart, status |-> "InProgress" ]
        applied == okInsert /\ StartTransactionOk(transactions, charge_points, connectors, transaction)
        conf == [idTagInfo |-> [status |-> "Accepted"], transactionId |-> id]
    IN /\ transactions' = IF applied THEN StartTransaction(transactions, transaction, now)
                                     ELSE transactions
       /\ ocpp_messages' = LogResponse(ocpp_messages, charge_points, d, "StartTransaction", conf, now, okResp)
       /\ confirmation' = HandlerReturn(d, "StartTransaction", conf, okResp /\ applied)

       /\ issued' = Append(issued, [id |-> id, cp |-> d, request |-> request, inserted |-> applied])
       /\ pc' = [pc EXCEPT ![d] = "idle"]
       /\ local' = [local EXCEPT ![d] = [none |-> TRUE]]
       /\ UNCHANGED << charge_points, connectors, meter_values, now, connected,
                       lastEvent, lastTransactionID, dispatchVars, connecting >>

OnStopTransaction(d, request, okReq, okUpdate, oks, okResp) ==
  LET conf == [empty |-> TRUE]
      log1 == LogRequest(ocpp_messages, charge_points, d, "StopTransaction", request, now, okReq)
      txs1 == IF okUpdate
              THEN StopTransaction(transactions, request.transactionId, request.timestamp,
                                   request.meterStop, now)
              ELSE transactions
      smp == Samples(request.transactionData)
      mvs == [i \in 1..Len(smp) |->
                NewMeterValue(d, 0, request.transactionId, smp[i].timestamp, smp[i].sampledValue)]
  IN /\ Idle(d)
     /\ transactions' = txs1
     /\ meter_values' = SaveMeterValues(meter_values, mvs, oks, txs1, charge_points, connectors, now)
     /\ ocpp_messages' = LogResponse(log1, charge_points, d, "StopTransaction", conf, now, okResp)
     /\ confirmation' = HandlerReturn(d, "StopTransaction", conf, okReq /\ okResp /\ (okUpdate))
     /\ lastEvent' = [lastEvent EXCEPT ![d] = OtherEvent]
     /\ UNCHANGED << charge_points, connectors, now, connected, txnVars, dispatchVars, connecting >>

\* ---- OnMeterValues and OnStopTransaction call by call: the request is logged, one
\* SaveMeterValue call is made per sample, the confirmation is logged and returned.
\* Each call ends, with its result or with the error of its 5 s deadline.
\* for _, sampledValue := range ...: the loop goes on to the next sample whether
\* or not the call for this one failed
NextSampleRetry(i, applied) == IF applied THEN i + 1 ELSE i

NextSample(i, applied) == i + 1

OnMeterValues_begin(d, request, okReq) ==
  LET smp == Samples(request.meterValue)
      mvs == [i \in 1..Len(smp) |->
                NewMeterValue(d, request.connectorId,
                              IF request.transactionId # << >> THEN request.transactionId[1] ELSE 0,
                              smp[i].timestamp, smp[i].sampledValue)]
  IN /\ Idle(d)
     /\ ocpp_messages' = LogRequest(ocpp_messages, charge_points, d, "MeterValues", request, now, okReq)
     /\ local' = [local EXCEPT ![d] = [action |-> "MeterValues", mvs |-> mvs, next |-> 1]]
     /\ pc' = [pc EXCEPT ![d] = "samples"]
     /\ lastEvent' = [lastEvent EXCEPT ![d] = OtherEvent]
     /\ UNCHANGED << charge_points, connectors, transactions, meter_values, now, connected,
                     confirmation, lastTransactionID, issued, dispatchVars, connecting >>

OnStopTransaction_begin(d, request, okReq, okUpdate) ==
  LET smp == Samples(request.transactionData)
      mvs == [i \in 1..Len(smp) |->
                NewMeterValue(d, 0, request.transactionId, smp[i].timestamp, smp[i].sampledValue)]
  IN /\ Idle(d)
     /\ ocpp_messages' = LogRequest(ocpp_messages, charge_points, d, "StopTransaction", request, now, okReq)
     /\ transactions' = IF okUpdate
                        THEN StopTransaction(transactions, request.transactionId,
                                             request.timestamp, request.meterStop, now)
                        ELSE transactions
     /\ local' = [local EXCEPT ![d] = [action |-> "StopTransaction", mvs |-> mvs, next |-> 1]]
     /\ pc' = [pc EXCEPT ![d] = "samples"]
     /\ lastEvent' = [lastEvent EXCEPT ![d] = OtherEvent]
     /\ UNCHANGED << charge_points, connectors, meter_values, now, connected,
                     confirmation, lastTransactionID, issued, dispatchVars, connecting >>

\* one h.cs.db.SaveMeterValue(ctx, mv) call of the loop
SaveSample(d, ok) ==
  /\ pc[d] = "samples"
  /\ local[d].next <= Len(local[d].mvs)
  /\ LET mv == local[d].mvs[local[d].next]
         applied == ok /\ SaveMeterValueOk(transactions, charge_points, connectors, mv)
     IN /\ meter_values' = IF applied THEN SaveMeterValue(meter_values, mv, now)
                                      ELSE meter_values
        /\ local' = [local EXCEPT ![d].next = NextSample(@, applied)]
  /\ UNCHANGED << charge_points, connectors, transactions, ocpp_messages, now, connected,
                  confirmation, lastEvent, pc, lastTransactionID, issued, dispatchVars, connecting >>

\* after the loop: the confirmation is built, logged and returned
SamplesReturn(d, okResp) ==
  /\ pc[d] = "samples"
  /\ local[d].next > Len(local[d].mvs)
  /\ ocpp_messages' = LogResponse(ocpp_messages, charge_points, d, local[d].action,
                                  [empty |-> TRUE], now, okResp)
  /\ confirmation' = HandlerReturn(d, local[d].action, [empty |-> TRUE], okResp)
  /\ pc' = [pc EXCEPT ![d] = "idle"]
  /\ local' = [local EXCEPT ![d] = [none |-> TRUE]]
  /\ UNCHANGED << charge_points, connectors, transactions, meter_values, now, connected,
                  lastEvent, lastTransactionID, issued, dispatchVars, connecting >>

\* Authorize, DataTransfer, DiagnosticsStatusNotification, FirmwareStatusNotification:
\* the request and the confirmation are logged, nothing else is written
AuditOnly(d, action, request, conf, okReq, okResp) ==
  LET log1 == LogRequest(ocpp_messages, charge_points, d, action, request, now, okReq)
  IN /\ Idle(d)
     /\ ocpp_messages' = LogResponse(log1, charge_points, d, action, conf, now, okResp)
     /\ confirmation' = HandlerReturn(d, action, conf, okReq /\ okResp)
     /\ lastEvent' = [lastEvent EXCEPT ![d] = OtherEvent]
     /\ UNCHANGED << charge_points, connectors, transactions, meter_values, now,
                     connected, txnVars, dispatchVars, connecting >>

\* an authorization policy: only tags known to the system are accepted
OnAuthorizeKnownTagsOnly(d, request, okReq, okResp) ==
  AuditOnly(d, "Authorize", request,
            [idTagInfo |-> [status |-> IF request.idTag = "TAG1" THEN "Accepted" ELSE "Invalid"]],
            okReq, okResp)

OnAuthorize(d, request, okReq, okResp) ==
  AuditOnly(d, "Authorize", request, [idTagInfo |-> [status |-> "Accepted"]], okReq, okResp)

OnDataTransfer(d, request, okReq, okResp) ==
  AuditOnly(d, "DataTransfer", request, [status |-> "Accepted"], okReq, okResp)

OnDiagnosticsStatusNotification(d, request, okReq, okResp) ==
  AuditOnly(d, "DiagnosticsStatusNotification", request, [empty |-> TRUE], okReq, okResp)

OnFirmwareStatusNotification(d, request, okReq, okResp) ==
  AuditOnly(d, "FirmwareStatusNotification", request, [empty |-> TRUE], okReq, okResp)

\* ============================================================== Transport
\* The transport is the external OCPP library behind OcppServer: a call to a device
\* that is not in its directory is refused at once; an accepted call is outstanding
\* until the device confirms it or the transport gives it up (timeout, disconnect),
\* and then the continuation handed over with the call is run.
TransportAccepts(cp) == cp \in connected

TransportError(cp) == IF TransportAccepts(cp) THEN "nil" ELSE "not connected"

\* ===================================================== Command Dispatcher
\* the continuation a command hands to the transport: the closure it has just built
NoCallback(invocation) == << >>

Callback(invocation) == << invocation >>

\* the call a command makes on OcppServer, once
SendCallTwice(cs, cp, action, request, invocation) ==
  LET call == [ cp |-> cp, action |-> action, request |-> request, invocation |-> invocation,
                callback |-> Callback(invocation), state |-> "pending" ]
  IN IF TransportAccepts(cp) THEN cs \o << call, call >> ELSE cs

SendCall(cs, cp, action, request, invocation) ==
  IF TransportAccepts(cp)
  THEN Append(cs, [ cp |-> cp, action |-> action, request |-> request,
                    invocation |-> invocation, callback |-> Callback(invocation), state |-> "pending" ])
  ELSE cs

\* what a command returns to its caller: the error OcppServer returned
CommandReturnNil(cp, command, err) ==
  [ cp |-> cp, command |-> command, err |-> "nil",
    wasConnected |-> TransportAccepts(cp), callbacks |-> 0, logged |-> "" ]

CommandReturn(cp, command, err) ==
  [ cp |-> cp, command |-> command, err |-> err,
    wasConnected |-> TransportAccepts(cp), callbacks |-> 0, logged |-> "" ]

\* return s.centralSystem.OcppServer.<Action>(chargePointID, callback, ...)
SendCommand(cp, command, action, request) ==
  /\ Len(results) < MaxCalls
  /\ calls' = SendCall(calls, cp, action, request, Len(results) + 1)
  /\ results' = Append(results, CommandReturn(cp, command, TransportError(cp)))
  /\ UNCHANGED << storeVars, now, connected, confirmation, lastEvent, txnVars, connecting >>

\* return fmt.Errorf("invalid ... type: %s", ...)
RejectCommand(cp, command, err) ==
  /\ Len(results) < MaxCalls
  /\ results' = Append(results, CommandReturn(cp, command, err))
  /\ UNCHANGED << storeVars, now, connected, confirmation, lastEvent, txnVars, calls, connecting >>

\* the reset type handed to the transport as it came
ResetChargePointUnchecked(cp, resetType) ==
  SendCommand(cp, "ResetChargePoint", "Reset", [type |-> resetType])

ResetChargePoint(cp, resetType) ==
  IF resetType \in {"Hard", "Soft"}
  THEN SendCommand(cp, "ResetChargePoint", "Reset", [type |-> resetType])
  ELSE RejectCommand(cp, "ResetChargePoint", "invalid reset type")

ChangeAvailability(cp, connectorID, availabilityType) ==
  IF availabilityType \in {"Operative", "Inoperative"}
  THEN SendCommand(cp, "ChangeAvailability", "ChangeAvailability",
                   [connectorId |-> connectorID, type |-> availabilityType])
  ELSE RejectCommand(cp, "ChangeAvailability", "invalid availability type")

UnlockConnector(cp, connectorID) ==
  SendCommand(cp, "UnlockConnector", "UnlockConnector", [connectorId |-> connectorID])

\* the request option sets ConnectorId to &connectorID whatever its value
RemoteStartTransaction(cp, connectorID, idTag) ==
  SendCommand(cp, "RemoteStartTransaction", "RemoteStartTransaction",
              [idTag |-> idTag, connectorId |-> << connectorID >>])

RemoteStopTransaction(cp, transactionID) ==
  SendCommand(cp, "RemoteStopTransaction", "RemoteStopTransaction",
              [transactionId |-> transactionID])

TriggerHeartbeat(cp) ==
  SendCommand(cp, "TriggerHeartbeat", "TriggerMessage",
              [requestedMessage |-> "Heartbeat", connectorId |-> << >>])

TriggerStatusNotification(cp, connectorID) ==
  SendCommand(cp, "TriggerStatusNotification", "TriggerMessage",
              [requestedMessage |-> "StatusNotification",
               connectorId |-> IF connectorID > 0 THEN << connectorID >> ELSE << >>])

\* startTime, stopTime: << >> for the zero time
GetDiagnostics(cp, location, startTime, stopTime) ==
  SendCommand(cp, "GetDiagnostics", "GetDiagnostics",
              [location |-> location, startTime |-> startTime, stopTime |-> stopTime])

UpdateFirmware(cp, location, retrieveDate) ==
  SendCommand(cp, "UpdateFirmware", "UpdateFirmware",
              [location |-> location, retrieveDate |-> retrieveDate])

ClearCache(cp) == SendCommand(cp, "ClearCache", "ClearCache", [empty |-> TRUE])

GetConfiguration(cp, keys) ==
  SendCommand(cp, "GetConfiguration", "GetConfiguration", [key |-> keys])

ChangeConfiguration(cp, key, value) ==
  SendCommand(cp, "ChangeConfiguration", "ChangeConfiguration", [key |-> key, value |-> value])

\* the continuation of a command: it logs the failure or the confirmation, and
\* sends nothing
callback(res, invocation, err) ==
  [res EXCEPT ![invocation].callbacks = @ + 1,
              ![invocation].logged = IF err # "nil" THEN "request failed"
                                                    ELSE "request processed"]

RECURSIVE RunCallbacks(_, _, _)
RunCallbacks(res, invocations, err) ==
  IF invocations = << >> THEN res
  ELSE RunCallbacks(callback(res, Head(invocations), err), Tail(invocations), err)

\* the device confirms an outstanding call
TransportConfirm(k) ==
  /\ k \in 1..Len(calls)
  /\ calls[k].state = "pending"
  /\ calls[k].cp \in connected
  /\ calls' = [calls EXCEPT ![k].state = "confirmed"]
  /\ results' = RunCallbacks(results, calls[k].callback, "nil")
  /\ UNCHANGED << storeVars, now, connected, confirmation, lastEvent, txnVars, connecting >>

\* the transport gives an outstanding call up: timeout, disconnect, bad confirmation
TransportFail(k) ==
  /\ k \in 1..Len(calls)
  /\ calls[k].state = "pending"
  /\ calls' = [calls EXCEPT ![k].state = "failed"]
  /\ results' = RunCallbacks(results, calls[k].callback, "transport error")
  /\ UNCHANGED << storeVars, now, connected, confirmation, lastEvent, txnVars, connecting >>

\* time passes
Tick ==
  /\ now < MaxTime
  /\ now' = now + 1
  /\ UNCHANGED << storeVars, connected, confirmation, lastEvent, txnVars, dispatchVars, connecting >>

\* ================================================================== Init
Init ==
  /\ charge_points = EmptyTable
  /\ connectors = EmptyTable
  /\ transactions = EmptyTable
  /\ meter_values = << >>
  /\ ocpp_messages = << >>
  /\ lastTransactionID = InitialTransactionID
  /\ now = 1
  /\ connected = {}
  /\ pc = [d \in CPs |-> "idle"]
  /\ local = [d \in CPs |-> [none |-> TRUE]]
  /\ confirmation = NoConfirmation
  /\ lastEvent = [d \in CPs |-> OtherEvent]
  /\ issued = << >>
  /\ calls = << >>
  /\ results = << >>
  /\ connecting = [d \in CPs |-> << >>]

\* ------------------------- connection lifecycle of one device, no audit
Connect == \E okGet \in BOOLEAN, okSave \in BOOLEAN :
             handleNewChargePoint(Device, okGet, okSave)

Disconnect == \E okUpdate \in BOOLEAN : handleChargePointDisconnected(Device, okUpdate)

BootNotification == \E request \in BootRequests, okSave \in BOOLEAN :
                      OnBootNotification(Device, request, FALSE, okSave, FALSE)

Heartbeat == \E okUpdate \in BOOLEAN : OnHeartbeat(Device, FALSE, okUpdate, FALSE)

\* ----------------------------------------------------- transactions, no audit
StatusNotification == \E d \in CPs, request \in StatusRequests, okSave \in BOOLEAN :
                        OnStatusNotification(d, request, FALSE, okSave, FALSE)

StartTransactionLoad == \E d \in CPs, request \in StartRequests :
                          OnStartTransaction_load(d, request, FALSE)

StartTransactionStore == \E d \in CPs : OnStartTransaction_store(d)

StartTransactionReturn == \E d \in CPs, okInsert \in BOOLEAN :
                            OnStartTransaction_return(d, okInsert, FALSE)

\* the outcomes of the SaveMeterValue calls of a request with n samples
Outcomes(n) == [1..n -> BOOLEAN]

StopTransactionEvent ==
  \E d \in CPs, request \in StopRequests, okUpdate \in BOOLEAN :
    \E oks \in Outcomes(Len(Samples(request.transactionData))) :
      OnStopTransaction(d, request, FALSE, okUpdate, oks, FALSE)

\* the process starts against a store in which every charge point has booted
\* (rows that BootNotification writes); no connector has been reported yet
InitTx ==
  /\ charge_points = [d \in CPs |->
        [ vendor |-> "Acme", model |-> "X1", serial_number |-> "SN-1",
          firmware_version |-> "1.0", last_heartbeat |-> 1,
          registration_status |-> "Accepted", connected_since |-> 1,
          is_connected |-> TRUE ]]
  /\ connectors = EmptyTable
  /\ transactions = EmptyTable
  /\ meter_values = << >>
  /\ ocpp_messages = << >>
  /\ lastTransactionID = InitialTransactionID
  /\ now = 1
  /\ connected = CPs
  /\ pc = [d \in CPs |-> "idle"]
  /\ local = [d \in CPs |-> [none |-> TRUE]]
  /\ confirmation = NoConfirmation
  /\ lastEvent = [d \in CPs |-> OtherEvent]
  /\ issued = << >>
  /\ calls = << >>
  /\ results = << >>
  /\ connecting = [d \in CPs |-> << >>]

NextTx == StatusNotification \/ StartTransactionLoad
            \/ StartTransactionStore \/ StartTransactionReturn \/ StopTransactionEvent

SpecTx == InitTx /\ [][NextTx]_vars

\* --------------------------------------- every inbound request, every outcome
MeterRequests == { [connectorId |-> 1, transactionId |-> x, meterValue |-> OneBatch] :
                   x \in {<< >>, << InitialTransactionID + 1 >>} }

\* the audit log and the meter values are kept to MaxRows rows, the transactions too
Room == Len(ocpp_messages) < MaxRows /\ Len(meter_values) < MaxRows

Flags == BOOLEAN \X BOOLEAN \X BOOLEAN

Boot == \E request \in BootRequests, ok \in Flags :
          Room /\ OnBootNotification(Device, request, ok[1], ok[2], ok[3])

Beat == \E ok \in Flags : Room /\ OnHeartbeat(Device, ok[1], ok[2], ok[3])

Status == \E request \in StatusRequests, ok \in Flags :
            Room /\ OnStatusNotification(Device, request, ok[1], ok[2], ok[3])

Meter == \E request \in MeterRequests, ok \in Flags :
           \E oks \in Outcomes(Len(Samples(request.meterValue))) :
             Room /\ OnMeterValues(Device, request, ok[1], oks, ok[3])

StartLoad == \E request \in StartRequests, okReq \in BOOLEAN :
               Room /\ Len(issued) < MaxRows /\ OnStartTransaction_load(Device, request, okReq)

StartStore == OnStartTransaction_store(Device)

StartReturn == \E okInsert \in BOOLEAN, okResp \in BOOLEAN :
                 OnStartTransaction_return(Device, okInsert, okResp)

Stop == \E request \in StopRequests, ok \in Flags :
          \E oks \in Outcomes(Len(Samples(request.transactionData))) :
            Room /\ OnStopTransaction(Device, request, ok[1], ok[2], oks, ok[3])

\* a tag that started a transaction and one the system has never seen
IdTags == {"TAG1", "UNKNOWN-TAG"}

VendorIds == {"Acme", "Other"}

Authorize == \E idTag \in IdTags, okReq \in BOOLEAN, okResp \in BOOLEAN :
               Room /\ OnAuthorize(Device, [idTag |-> idTag], okReq, okResp)

DataTransfer == \E vendorId \in VendorIds, okReq \in BOOLEAN, okResp \in BOOLEAN :
                  Room /\ OnDataTransfer(Device, [vendorId |-> vendorId], okReq, okResp)

DiagnosticsStatus == \E okReq \in BOOLEAN, okResp \in BOOLEAN :
                       Room /\ OnDiagnosticsStatusNotification(Device, [status |-> "Uploaded"],
                                                               okReq, okResp)

FirmwareStatus == \E okReq \in BOOLEAN, okResp \in BOOLEAN :
                    Room /\ OnFirmwareStatusNotification(Device, [status |-> "Installed"],
                                                         okReq, okResp)

NextHandlers == Boot \/ Beat \/ Status \/ Meter \/ StartLoad \/ StartStore \/ StartReturn
                  \/ Stop \/ Authorize \/ DataTransfer \/ DiagnosticsStatus \/ FirmwareStatus

SpecHandlers == InitTx /\ [][NextHandlers]_vars

\* ----------------------- every inbound request of every device, audit applied
\* the audit log is kept to the entries of MaxRows actions, and one more
LogRoom == Len(ocpp_messages) < 2 * MaxRows

AuditedBoot == \E d \in CPs, request \in BootRequests :
                 LogRoom /\ OnBootNotification(d, request, TRUE, TRUE, TRUE)

AuditedBeat == \E d \in CPs : LogRoom /\ OnHeartbeat(d, TRUE, TRUE, TRUE)

AuditedStatus == \E d \in CPs, request \in StatusRequests :
                   LogRoom /\ OnStatusNotification(d, request, TRUE, TRUE, TRUE)

AuditedMeter == \E d \in CPs, request \in MeterRequests :
                  LogRoom /\ OnMeterValues(d, request, TRUE,
                                           [i \in 1..Len(Samples(request.meterValue)) |-> TRUE], TRUE)

AuditedStartLoad == \E d \in CPs, request \in StartRequests :
                      LogRoom /\ OnStartTransaction_load(d, request, TRUE)

AuditedStartStore == \E d \in CPs : OnStartTransaction_store(d)

AuditedStartReturn == \E d \in CPs : OnStartTransaction_return(d, TRUE, TRUE)

AuditedStop == \E d \in CPs, request \in StopRequests :
                 LogRoom /\ OnStopTransaction(d, request, TRUE, TRUE,
                                              [i \in 1..Len(Samples(request.transactionData)) |-> TRUE],
                                              TRUE)

AuditedAuthorize == \E d \in CPs : LogRoom /\ OnAuthorize(d, [idTag |-> "TAG1"], TRUE, TRUE)

AuditedDataTransfer == \E d \in CPs :
                         LogRoom /\ OnDataTransfer(d, [vendorId |-> "Acme"], TRUE, TRUE)

AuditedDiagnosticsStatus ==
  \E d \in CPs : LogRoom /\ OnDiagnosticsStatusNotification(d, [status |-> "Uploaded"], TRUE, TRUE)

AuditedFirmwareStatus ==
  \E d \in CPs : LogRoom /\ OnFirmwareStatusNotification(d, [status |-> "Installed"], TRUE, TRUE)

NextAudit == AuditedBoot \/ AuditedBeat \/ AuditedStatus \/ AuditedMeter \/ AuditedStartLoad
               \/ AuditedStartStore \/ AuditedStartReturn \/ AuditedStop \/ AuditedAuthorize
               \/ AuditedDataTransfer \/ AuditedDiagnosticsStatus \/ AuditedFirmwareStatus

SpecAudit == InitTx /\ [][NextAudit]_vars

\* ------------------------------------------- connectors of every device
ConnectorReports ==
  { [connectorId |-> c, status |-> r[1], errorCode |-> r[2]] :
      c \in {1, 2}, r \in {<<"Available", "NoError">>, <<"Faulted", "GroundFailure">>} }

Arrive == \E d \in CPs, okSave \in BOOLEAN : handleNewChargePoint(d, TRUE, okSave)

Report == \E d \in CPs, request \in ConnectorReports, okSave \in BOOLEAN :
            OnStatusNotification(d, request, FALSE, okSave, FALSE)

NextConnectors == Arrive \/ Report

SpecConnectors == Init /\ [][NextConnectors]_vars

\* ------------------------------------------------ meter values of one device
Sample(value, measurand, unit) == [value |-> value, measurand |-> measurand, unit |-> unit]

\* two sample sets with three samples: "12", "x" and "1.5"
MixedBatches ==
  << [timestamp |-> 1,
      sampledValue |-> << Sample(<<"1", "2">>, "", ""), Sample(<<"x">>, "", "") >>],
     [timestamp |-> 2,
      sampledValue |-> << Sample(<<"1", ".", "5">>, "Power.Active.Import", "W") >>] >>

\* one sample set with two samples: "1,5" and "7"
CommaBatches ==
  << [timestamp |-> 1,
      sampledValue |-> << Sample(<<"1", ",", "5">>, "", ""), Sample(<<"7">>, "", "") >>] >>

SampleRequests ==
  { [connectorId |-> 1, transactionId |-> x, meterValue |-> b] :
      x \in {<< >>, << InitialTransactionID + 1 >>}, b \in {MixedBatches, CommaBatches} }

SampleStops ==
  { [transactionId |-> InitialTransactionID + 1, meterStop |-> 250, timestamp |-> 2,
     transactionData |-> b] : b \in {MixedBatches, CommaBatches} }

MeterRoom == Len(meter_values) < MaxRows

MeterReport == \E c \in {0, 1} :
                 OnStatusNotification(Device, [connectorId |-> c, status |-> "Available",
                                               errorCode |-> "NoError"], FALSE, TRUE, FALSE)

MeterStartLoad == \E request \in StartRequests :
                    Len(issued) < MaxRows /\ OnStartTransaction_load(Device, request, FALSE)

MeterStartStore == OnStartTransaction_store(Device)

MeterStartReturn == OnStartTransaction_return(Device, TRUE, FALSE)

MeterSend == \E request \in SampleRequests :
               \E oks \in Outcomes(Len(Samples(request.meterValue))) :
                 MeterRoom /\ OnMeterValues(Device, request, FALSE, oks, FALSE)

MeterStop == \E request \in SampleStops :
               \E oks \in Outcomes(Len(Samples(request.transactionData))) :
                 MeterRoom /\ OnStopTransaction(Device, request, FALSE, TRUE, oks, FALSE)

NextMeter == MeterReport \/ MeterStartLoad \/ MeterStartStore \/ MeterStartReturn
               \/ MeterSend \/ MeterStop

SpecMeter == InitTx /\ [][NextMeter]_vars

\* --------------------------------- one device across restarts of the process
\* the server process ends and is started again: package variables take their
\* initial values, handlers in progress and the transport's connections are gone,
\* the database keeps its rows
Restart ==
  /\ lastTransactionID' = InitialTransactionID
  /\ pc' = [d \in CPs |-> "idle"]
  /\ local' = [d \in CPs |-> [none |-> TRUE]]
  /\ connected' = {}
  /\ confirmation' = NoConfirmation
  /\ lastEvent' = [d \in CPs |-> OtherEvent]
  /\ calls' = << >>
  /\ connecting' = [d \in CPs |-> << >>]
  /\ UNCHANGED << storeVars, now, issued, results >>

RestartReport == \E okSave \in BOOLEAN :
  \E request \in StatusRequests : OnStatusNotification(Device, request, FALSE, okSave, FALSE)

RestartStartLoad == \E request \in StartRequests : OnStartTransaction_load(Device, request, FALSE)

RestartStartStore == OnStartTransaction_store(Device)

RestartStartReturn == \E okInsert \in BOOLEAN : OnStartTransaction_return(Device, okInsert, FALSE)

RestartStop == \E request \in StopRequests, okUpdate \in BOOLEAN :
  OnStopTransaction(Device, request, FALSE, okUpdate,
                    [i \in 1..Len(Samples(request.transactionData)) |-> TRUE], FALSE)

NextRestart == Restart \/ RestartReport \/ RestartStartLoad \/ RestartStartStore
                 \/ RestartStartReturn \/ RestartStop

SpecRestart == InitTx /\ [][NextRestart]_vars

\* ------- one device, its handlers one store call at a time, no audit
StepsReport == \E request \in StatusRequests :
                 OnStatusNotification(Device, request, FALSE, TRUE, FALSE)

StepsStartLoad == \E request \in StartRequests :
                    Len(issued) < MaxRows /\ OnStartTransaction_load(Device, request, FALSE)

StepsStartStore == OnStartTransaction_store(Device)

StepsStartReturn == \E okInsert \in BOOLEAN : OnStartTransaction_return(Device, okInsert, FALSE)

StepsMeterBegin == \E request \in SampleRequests :
                     MeterRoom /\ OnMeterValues_begin(Device, request, FALSE)

StepsStopBegin == \E request \in SampleStops, okUpdate \in BOOLEAN :
                    MeterRoom /\ OnStopTransaction_begin(Device, request, FALSE, okUpdate)

StepsSave == \E ok \in BOOLEAN : SaveSample(Device, ok)

StepsReturn == SamplesReturn(Device, FALSE)

NextSteps == StepsReport \/ StepsStartLoad \/ StepsStartStore \/ StepsStartReturn
               \/ StepsMeterBegin \/ StepsStopBegin \/ StepsSave \/ StepsReturn

\* a handler that has been started runs on: each of its calls ends by its deadline
SpecSteps == InitTx /\ [][NextSteps]_vars
               /\ WF_vars(StepsStartStore) /\ WF_vars(StepsStartReturn)
               /\ WF_vars(StepsSave) /\ WF_vars(StepsReturn)

\* ------------------------------------------------------------- dispatcher
ResetTypes == {"Hard", "Soft", "Medium"}
AvailabilityTypes == {"Operative", "Inoperative", "Broken"}

Reset == \E cp \in CPs, resetType \in ResetTypes : ResetChargePoint(cp, resetType)

Availability == \E cp \in CPs, availabilityType \in AvailabilityTypes :
                  ChangeAvailability(cp, 1, availabilityType)

Unlock == \E cp \in CPs : UnlockConnector(cp, 1)

RemoteStart == \E cp \in CPs : RemoteStartTransaction(cp, 1, "TAG1")

RemoteStop == \E cp \in CPs : RemoteStopTransaction(cp, InitialTransactionID + 1)

TriggerHB == \E cp \in CPs : TriggerHeartbeat(cp)

TriggerSN == \E cp \in CPs : TriggerStatusNotification(cp, 1)

Diagnostics == \E cp \in CPs : GetDiagnostics(cp, "ftp://host/diag", << >>, << >>)

Firmware == \E cp \in CPs : UpdateFirmware(cp, "ftp://host/fw", 1)

Cache == \E cp \in CPs : ClearCache(cp)

GetConfig == \E cp \in CPs : GetConfiguration(cp, << "HeartbeatInterval" >>)

ChangeConfig == \E cp \in CPs : ChangeConfiguration(cp, "HeartbeatInterval", "300")

Confirmed == \E k \in 1..Len(calls) : TransportConfirm(k)

Failed == \E k \in 1..Len(calls) : TransportFail(k)

Command == Reset \/ Availability \/ Unlock \/ RemoteStart \/ RemoteStop \/ TriggerHB
             \/ TriggerSN \/ Diagnostics \/ Firmware \/ Cache \/ GetConfig \/ ChangeConfig

\* the store applies every write here: the directory of the transport is what matters
Attach == \E d \in CPs : handleNewChargePoint(d, TRUE, TRUE)

Detach == \E d \in CPs : handleChargePointDisconnected(d, TRUE)

NextDispatch == Attach \/ Detach \/ Command \/ Confirmed \/ Failed

SpecDispatch == Init /\ [][NextDispatch]_vars

\* the transport resolves every outstanding call: by its timeout at the latest
SpecDispatchLive == Init /\ [][NextDispatch]_vars /\ WF_vars(Confirmed \/ Failed)

\* ------ one device: its connection events, its inbound requests, commands to it
\* room for the rows of one more request after those of MaxRows requests
AppendRoom == Len(ocpp_messages) <= MaxRows + 1 /\ Len(meter_values) <= MaxRows

AppendConnect == handleNewChargePoint(Device, TRUE, TRUE)

AppendDisconnect == handleChargePointDisconnected(Device, TRUE)

AppendBoot == \E request \in BootRequests :
                AppendRoom /\ OnBootNotification(Device, request, TRUE, TRUE, TRUE)

AppendBeat == AppendRoom /\ OnHeartbeat(Device, TRUE, TRUE, TRUE)

AppendStatus == \E request \in StatusRequests, ok \in BOOLEAN :
                  AppendRoom /\ OnStatusNotification(Device, request, ok, TRUE, ok)

AppendMeter == \E request \in MeterRequests :
                 \E oks \in Outcomes(Len(Samples(request.meterValue))) :
                   AppendRoom /\ OnMeterValues(Device, request, TRUE, oks, TRUE)

AppendStartLoad == \E request \in StartRequests, ok \in BOOLEAN :
                     AppendRoom /\ Len(issued) < MaxRows /\ OnStartTransaction_load(Device, request, ok)

AppendStartStore == OnStartTransaction_store(Device)

AppendStartReturn == \E ok \in BOOLEAN : OnStartTransaction_return(Device, TRUE, ok)

AppendStop == \E request \in StopRequests :
                \E oks \in Outcomes(Len(Samples(request.transactionData))) :
                  AppendRoom /\ OnStopTransaction(Device, request, TRUE, TRUE, oks, TRUE)

AppendAuthorize == AppendRoom /\ OnAuthorize(Device, [idTag |-> "TAG1"], TRUE, TRUE)

AppendDataTransfer == AppendRoom /\ OnDataTransfer(Device, [vendorId |-> "Acme"], TRUE, TRUE)

AppendDiagnosticsStatus == AppendRoom /\ OnDiagnosticsStatusNotification(Device, [status |-> "Uploaded"], TRUE, TRUE)

AppendFirmwareStatus == AppendRoom /\ OnFirmwareStatusNotification(Device, [status |-> "Installed"], TRUE, TRUE)

\* the first command to the device
AppendCommand == results = << >> /\ RemoteStopTransaction(Device, InitialTransactionID + 1)

NextAppend == AppendConnect \/ AppendDisconnect \/ AppendBoot \/ AppendBeat \/ AppendStatus
                \/ AppendMeter \/ AppendStartLoad \/ AppendStartStore \/ AppendStartReturn
                \/ AppendStop \/ AppendAuthorize \/ AppendDataTransfer
                \/ AppendDiagnosticsStatus \/ AppendFirmwareStatus
                \/ AppendCommand \/ Confirmed \/ Failed

SpecAppend == InitTx /\ [][NextAppend]_vars

Next == Connect \/ Disconnect \/ BootNotification \/ Heartbeat \/ Tick

Spec == Init /\ [][Next]_vars

\* ================================================================ claims
ConnectStep(d) == \E okGet \in BOOLEAN, okSave \in BOOLEAN : handleNewChargePoint(d, okGet, okSave)

\* a step of SpecTx is OnStopTransaction(d, request) with some outcome of its store
\* calls (the conjuncts before the last follow from the last: they tell other steps
\* apart early)
StopStep(d, request) ==
  /\ confirmation'.action = "StopTransaction" /\ confirmation'.cp = d
  /\ \E okUpdate \in BOOLEAN :
       \E oks \in Outcomes(Len(Samples(request.transactionData))) :
         OnStopTransaction(d, request, FALSE, okUpdate, oks, FALSE)

\* the same with the UPDATE applied
AppliedStopStep(d, request) ==
  /\ confirmation'.action = "StopTransaction" /\ confirmation'.cp = d
  /\ \E oks \in Outcomes(Len(Samples(request.transactionData))) :
       OnStopTransaction(d, request, FALSE, TRUE, oks, FALSE)

\* connected_since of d, or Null when d has no row
ConnectedSince(tbl, d) ==
  IF d \in DOMAIN tbl THEN NotNull(tbl[d].connected_since) ELSE Null

\* what GetTransaction returns for a transaction started by the issued entry e and
\* stopped by request
StoppedTransaction(e, request) ==
  [ err |-> "nil", id |-> e.id, chargePointId |-> e.cp,
    connectorId |-> e.request.connectorId, idTag |-> e.request.idTag,
    startTime |-> e.request.timestamp, endTime |-> request.timestamp,
    meterStart |-> e.request.meterStart, meterStop |-> request.meterStop,
    status |-> "Completed" ]

\* C1: every id StartTransaction returns is strictly greater than every id returned
\* before it (so no id is returned twice), under every interleaving of handlers
C1_IdsStrictlyIncreasing ==
  \A i \in 1..Len(issued), j \in 1..Len(issued) : i < j => issued[i].id < issued[j].id

\* C2: whatever a handler hands back is a confirmation with a nil error, for every
\* outcome of the store and audit writes the handler made
C2_HandlersAlwaysConfirm ==
  confirmation # NoConfirmation =>
    /\ confirmation.err = "nil"
    /\ confirmation.conf # NoConfirmation.conf

\* a StartTransaction confirmed although its insert and both audit writes failed
C2_Witness ==
  /\ confirmation.action = "StartTransaction"
  /\ confirmation.err = "nil"
  /\ confirmation.conf.transactionId \notin DOMAIN transactions
  /\ ocpp_messages = << >>

C4_ConnectedSinceOnlyOnReconnect ==
  [][\A d \in DOMAIN charge_points :
       /\ d \in DOMAIN charge_points'
       /\ charge_points'[d].connected_since # charge_points[d].connected_since
             => (~charge_points[d].is_connected /\ charge_points'[d].is_connected)]_vars

\* a BootNotification was saved for a connected charge point later than its
\* connected_since
C4_Witness ==
  /\ confirmation.action = "BootNotification"
  /\ confirmation.cp \in DOMAIN charge_points
  /\ charge_points[confirmation.cp].last_heartbeat = confirmation.conf.currentTime
  /\ charge_points[confirmation.cp].is_connected
  /\ charge_points[confirmation.cp].connected_since < confirmation.conf.currentTime

C6_TransactionLifecycle ==
  [][\A x \in DOMAIN transactions' :
       /\ transactions'[x].status \in {"InProgress", "Completed"}
       /\ x \notin DOMAIN transactions
            => /\ transactions'[x].status = "InProgress"
               /\ ~transactions'[x].end_time.Valid
               /\ ~transactions'[x].meter_stop.Valid
       /\ (x \in DOMAIN transactions /\ transactions'[x].status # transactions[x].status)
            => /\ transactions[x].status = "InProgress"
               /\ transactions'[x].status = "Completed"
               /\ \E d \in CPs, request \in StopRequests :
                    request.transactionId = x /\ StopStep(d, request)]_vars

\* one transaction is Completed while another is still InProgress
C6_Witness ==
  \E x \in DOMAIN transactions, y \in DOMAIN transactions :
    transactions[x].status = "Completed" /\ transactions[y].status = "InProgress"

\* C7: a StopTransaction leaves the set of stored transaction ids as it was
C7_StopCreatesNoTransaction ==
  [][\A d \in CPs, request \in StopRequests :
       DOMAIN transactions' = DOMAIN transactions \/ ~StopStep(d, request)]_vars

\* a StopTransaction was confirmed while the store holds no transaction at all
C7_Witness ==
  /\ confirmation.action = "StopTransaction"
  /\ transactions = EmptyTable

\* ------------------------------------------------------------------- C8..C10
CallsOf(i) == { k \in 1..Len(calls) : calls[k].invocation = i }

\* C8: a command whose target is not connected returns an error to its caller at
\* once, puts no call on the transport and its continuation is never run.
C8_UnconnectedTargetFailsAtOnce ==
  \A i \in 1..Len(results) :
    ~results[i].wasConnected =>
      /\ results[i].err # "nil"
      /\ CallsOf(i) = {}
      /\ results[i].callbacks = 0

C8_Witness ==
  \E i \in 1..Len(results) :
    /\ ~results[i].wasConnected
    /\ results[i].err = "not connected"
    /\ results[i].cp \in DOMAIN charge_points
    /\ ~charge_points[results[i].cp].is_connected

\* C9: the continuation of a command the transport accepted is eventually run, and
\* never run more than once, whether the device confirms, the call times out or the
\* device disconnects.
C9_AcceptedCommandContinuationOnce ==
  /\ \A i \in 1..(MaxCalls + 1) :
       (Len(results) >= i /\ results[i].err = "nil")
         ~> (Len(results) >= i /\ results[i].callbacks = 1)
  /\ [](\A i \in 1..Len(results) : results[i].callbacks <= 1)

C9_Witness ==
  \E i \in 1..Len(results) :
    /\ results[i].err = "nil"
    /\ results[i].callbacks = 1
    /\ results[i].logged = "request failed"
    /\ results[i].cp \notin connected

\* C10: one invocation of a command puts at most one call on the transport, also
\* after that call failed or timed out.
C10_OneCallPerInvocation ==
  \A i \in 1..Len(results) : Cardinality(CallsOf(i)) <= 1

C10_Witness ==
  \E i \in 1..Len(results) :
    /\ results[i].logged = "request failed"
    /\ Cardinality(CallsOf(i)) = 1
    /\ \A k \in CallsOf(i) : calls[k].state = "failed" /\ calls[k].cp \in connected

\* ------------------------------------------------------------------ C11
\* the entries a step appends to the audit log
Appended == SubSeq(ocpp_messages', Len(ocpp_messages) + 1, Len(ocpp_messages'))

IsRequestEntry(e, d) ==
  e.charge_point_id = d /\ e.message_type = "Request" /\ e.direction = "Inbound"

IsResponseEntry(e, d, action) ==
  /\ e.charge_point_id = d /\ e.message_type = "Response" /\ e.direction = "Outbound"
  /\ e.action = action

\* the audit entries of device d, in the order they were written
EntriesOf(d) == SelectSeq(ocpp_messages, LAMBDA e : e.charge_point_id = d)

\* C11: every handled action of a device d appends one Request/Inbound entry and
\* then one Response/Outbound entry of that action and of d, no other entry of d
\* in between, and keeps what the log held; only the step that stores the new
\* transaction id appends nothing.
C11_RequestThenResponse ==
  [][/\ SubSeq(ocpp_messages', 1, Len(ocpp_messages)) = ocpp_messages
     /\ \/ \E d \in CPs :
             /\ pc[d] = "idle" /\ pc'[d] = "idle"
             /\ Len(Appended) = 2
             /\ IsRequestEntry(Appended[1], d)
             /\ IsResponseEntry(Appended[2], d, Appended[1].action)
        \/ \E d \in CPs :
             /\ pc[d] = "idle" /\ pc'[d] = "store"
             /\ Len(Appended) = 1
             /\ IsRequestEntry(Appended[1], d) /\ Appended[1].action = "StartTransaction"
        \/ \E d \in CPs :
             /\ pc[d] = "store" /\ pc'[d] = "return" /\ Appended = << >>
        \/ \E d \in CPs :
             /\ pc[d] = "return" /\ pc'[d] = "idle"
             /\ Len(Appended) = 1
             /\ IsResponseEntry(Appended[1], d, "StartTransaction")
             /\ LET mine == EntriesOf(d)
                IN IsRequestEntry(mine[Len(mine)], d)
                     /\ mine[Len(mine)].action = "StartTransaction"]_vars

\* the entries of another device lie between the request and the response of a
\* StartTransaction
C11_Witness ==
  \E i \in 1..Len(ocpp_messages) :
    /\ i + 3 <= Len(ocpp_messages)
    /\ ocpp_messages[i].action = "StartTransaction"
    /\ ocpp_messages[i].message_type = "Request"
    /\ ocpp_messages[i + 1].charge_point_id # ocpp_messages[i].charge_point_id
    /\ ocpp_messages[i + 2].charge_point_id # ocpp_messages[i].charge_point_id
    /\ IsResponseEntry(ocpp_messages[i + 3], ocpp_messages[i].charge_point_id, "StartTransaction")

\* ------------------------------------------------------------------ C12
\* a step is OnBootNotification(d, request) with some outcome of SaveChargePoint
BootStep(d, request) ==
  /\ confirmation'.action = "BootNotification" /\ confirmation'.cp = d
  /\ \E okSave \in BOOLEAN : OnBootNotification(d, request, FALSE, okSave, FALSE)

\* the same with the write applied
AppliedBootStep(d, request) ==
  /\ confirmation'.action = "BootNotification" /\ confirmation'.cp = d
  /\ OnBootNotification(d, request, FALSE, TRUE, FALSE)

\* GetChargePoint(d) finds a record with the request's identity, Accepted, connected
ShowsBoot(tbl, d, request) ==
  /\ d \in DOMAIN tbl
  /\ LET cp == GetChargePoint(tbl, d)
     IN /\ cp.vendor = request.chargePointVendor
        /\ cp.model = request.chargePointModel
        /\ cp.serialNumber = request.chargePointSerialNumber
        /\ cp.firmwareVersion = request.firmwareVersion
        /\ cp.registrationStatus = "Accepted"
        /\ cp.isConnected

BootConfirmed == /\ confirmation'.conf.status = "Accepted"
                 /\ confirmation'.conf.interval = HeartbeatInterval
                 /\ confirmation'.err = "nil"

AppliedConnectStep(d) ==
  /\ lastEvent'[d].event # "other" /\ lastEvent'[d].applied
  /\ \E okGet \in BOOLEAN : handleNewChargePoint(d, okGet, TRUE)

\* C19 (for a Connect whose write the store applied): a Connect of a device with
\* no record creates a Pending, connected record; a Connect of a device with a
\* record sets is_connected and keeps vendor, model, serial number, firmware
\* version and registration status
C19_ConnectKeepsIdentity ==
  [][\A d \in CPs :
       ~AppliedConnectStep(d)
         \/ /\ d \in DOMAIN charge_points'
            /\ charge_points'[d].is_connected
            /\ d \notin DOMAIN charge_points
                 => charge_points'[d].registration_status = "Pending"
            /\ d \in DOMAIN charge_points
                 => /\ charge_points'[d].vendor = charge_points[d].vendor
                    /\ charge_points'[d].model = charge_points[d].model
                    /\ charge_points'[d].serial_number = charge_points[d].serial_number
                    /\ charge_points'[d].firmware_version = charge_points[d].firmware_version
                    /\ charge_points'[d].registration_status
                         = charge_points[d].registration_status]_vars

\* ------------------------------------------------------------------ C20
\* a step is handleChargePointDisconnected(d) with some outcome of its update
DisconnectStep(d) ==
  /\ d \in connected /\ d \notin connected'
  /\ \E okUpdate \in BOOLEAN : handleChargePointDisconnected(d, okUpdate)

\* the same with the update applied
AppliedDisconnectStep(d) ==
  /\ d \in connected /\ d \notin connected'
  /\ handleChargePointDisconnected(d, TRUE)

\* the step leaves everything of d but is_connected, creates no record of d and
\* changes no connector, transaction or meter value
DisconnectFrame(d) ==
  /\ d \in DOMAIN charge_points' <=> d \in DOMAIN charge_points
  /\ d \in DOMAIN charge_points
       => [charge_points'[d] EXCEPT !.is_connected = FALSE]
            = [charge_points[d] EXCEPT !.is_connected = FALSE]
  /\ UNCHANGED << connectors, transactions, meter_values >>

StatusStep(d, request) ==
  /\ confirmation'.action = "StatusNotification" /\ confirmation'.cp = d
  /\ \E okSave \in BOOLEAN : OnStatusNotification(d, request, FALSE, okSave, FALSE)

\* the same with the write applied: the store did not fail and d has a record
AppliedStatusStep(d, request) ==
  /\ confirmation'.action = "StatusNotification" /\ confirmation'.cp = d
  /\ d \in DOMAIN charge_points
  /\ OnStatusNotification(d, request, FALSE, TRUE, FALSE)

\* the connector (d, request.connectorId) has the reported status and error code
Reported(tbl, d, request) ==
  /\ <<d, request.connectorId>> \in DOMAIN tbl
  /\ tbl[<<d, request.connectorId>>].status = request.status
  /\ tbl[<<d, request.connectorId>>].error_code = request.errorCode

HealthyMeterStep(d, request) ==
  /\ confirmation'.action = "MeterValues" /\ confirmation'.cp = d
  /\ OnMeterValues(d, request, FALSE,
                   [i \in 1..Len(Samples(request.meterValue)) |-> TRUE], FALSE)

\* a step is OnStopTransaction(d, request) in which no store call failed for a
\* reason outside the request
HealthyStopStep(d, request) ==
  /\ confirmation'.action = "StopTransaction" /\ confirmation'.cp = d
  /\ OnStopTransaction(d, request, FALSE, TRUE,
                       [i \in 1..Len(Samples(request.transactionData)) |-> TRUE], FALSE)

\* the rows a step appends to meter_values
NewRows == SubSeq(meter_values', Len(meter_values) + 1, Len(meter_values'))

\* the request names no transaction, or one the store holds
TransactionKnown(request) ==
  request.transactionId = << >> \/ request.transactionId[1] \in DOMAIN transactions

\* row is the row of sample smp of a request of d for connector c: charge point,
\* connector, the timestamp of the sample set, measurand and unit with defaults
RowOfSample(row, d, c, smp) ==
  /\ row.charge_point_id = d
  /\ row.connector_id = c
  /\ row.timestamp = smp.timestamp
  /\ row.measurand = IF smp.sampledValue.measurand = "" THEN "Energy.Active.Import.Register"
                                                        ELSE smp.sampledValue.measurand
  /\ row.unit = IF smp.sampledValue.unit = "" THEN "Wh" ELSE smp.sampledValue.unit

\* the whole of s is a decimal number: sign, digits, "." digits
IsNumeric(s) ==
  LET signed == s # << >> /\ Head(s) \in {"+", "-"}
      s2 == IF signed THEN Tail(s) ELSE s
      n == DigitPrefixLen(s2)
      s3 == SubSeq(s2, n + 1, Len(s2))
      period == s3 # << >> /\ Head(s3) = "."
      m == IF period THEN DigitPrefixLen(Tail(s3)) ELSE 0
  IN n + m > 0 /\ Len(s2) = n + (IF period THEN 1 + m ELSE 0)

\* C15 (no store call failing from outside, the connector reported, the
\* transaction, if any is named, stored): a MeterValues request with n samples
\* appends n rows, one per sample in order, with the request's charge point and
\* connector, the timestamp of the sample set, and measurand and unit defaulted
C15_MeterValuesAppendsSamples ==
  [][\A request \in SampleRequests :
       ~(/\ <<Device, request.connectorId>> \in DOMAIN connectors
         /\ TransactionKnown(request)
         /\ HealthyMeterStep(Device, request))
         \/ LET smp == Samples(request.meterValue)
            IN /\ Len(NewRows) = Len(smp)
               /\ \A i \in 1..Len(smp) :
                    RowOfSample(NewRows[i], Device, request.connectorId, smp[i])]_vars

\* C16 (no store call failing from outside, the connector reported): the samples
\* of a MeterValues request without transactionId are stored, in rows that belong
\* to no transaction
C16_SamplesWithoutTransactionStored ==
  [][\A request \in SampleRequests :
       ~(/\ request.transactionId = << >>
         /\ <<Device, request.connectorId>> \in DOMAIN connectors
         /\ HealthyMeterStep(Device, request))
         \/ /\ Len(NewRows) = Len(Samples(request.meterValue))
            /\ \A i \in 1..Len(NewRows) :
                 NewRows[i].transaction_id \notin DOMAIN transactions]_vars

\* C17 (no store call failing from outside, connector and transaction stored): a
\* sample whose value is not a number is stored with value 0, every other sample
\* of the request with its own value
C17_BadValueStoredAsZero ==
  [][\A request \in SampleRequests :
       ~(/\ request.transactionId # << >>
         /\ TransactionKnown(request)
         /\ <<Device, request.connectorId>> \in DOMAIN connectors
         /\ HealthyMeterStep(Device, request))
         \/ LET smp == Samples(request.meterValue)
            IN /\ Len(NewRows) = Len(smp)
               /\ \A i \in 1..Len(smp) :
                    NewRows[i].value = IF IsNumeric(smp[i].sampledValue.value)
                                       THEN parseFloat64(smp[i].sampledValue.value).f
                                       ELSE 0]_vars

\* C18 (no store call failing from outside, transaction X stored): a
\* StopTransaction(X) with n embedded samples appends n rows of transaction X, of
\* the sending charge point, with connector id 0 and the MeterValues defaults
C18_StopAppendsEmbeddedSamples ==
  [][\A request \in SampleStops :
       ~(/\ request.transactionId \in DOMAIN transactions
         /\ HealthyStopStep(Device, request))
         \/ LET smp == Samples(request.transactionData)
            IN /\ Len(NewRows) = Len(smp)
               /\ \A i \in 1..Len(smp) :
                    /\ NewRows[i].transaction_id = request.transactionId
                    /\ RowOfSample(NewRows[i], Device, 0, smp[i])]_vars

\* ------------------------------------------------------------------ C21
\* a step is OnHeartbeat(d), whatever the outcome of its store call
HeartbeatStep(d) ==
  /\ confirmation'.action = "Heartbeat" /\ confirmation'.cp = d
  /\ \E okUpdate \in BOOLEAN : OnHeartbeat(d, FALSE, okUpdate, FALSE)

\* row with its last_heartbeat column left out
WithoutLastHeartbeat(row) == [row EXCEPT !.last_heartbeat = ZeroTime]

\* C21: a Heartbeat of device d changes no column of d's row but last_heartbeat,
\* creates no row when d has none, and leaves connectors, transactions and meter
\* values as they were
C21_HeartbeatChangesOnlyLastHeartbeat ==
  [][~HeartbeatStep(Device)
       \/ /\ DOMAIN charge_points' = DOMAIN charge_points
          /\ \A x \in DOMAIN charge_points :
               WithoutLastHeartbeat(charge_points'[x]) = WithoutLastHeartbeat(charge_points[x])
          /\ \A x \in DOMAIN charge_points \ {Device} : charge_points'[x] = charge_points[x]
          /\ UNCHANGED << connectors, transactions, meter_values >>]_vars

\* a Heartbeat has stamped the record that a Connect created, at a later time
C21_Witness ==
  /\ confirmation.action = "Heartbeat"
  /\ Device \in DOMAIN charge_points
  /\ charge_points[Device].last_heartbeat = now
  /\ charge_points[Device].vendor = "Unknown"
  /\ charge_points[Device].connected_since < now
  /\ charge_points[Device].connected_since # ZeroTime

\* ------------------------------------------------------------------ C22
\* a step is one of the four handlers that only write audit entries
AuditOnlyStep ==
  /\ confirmation'.action \in {"Authorize", "DataTransfer", "DiagnosticsStatusNotification",
                               "FirmwareStatusNotification"}
  /\ (Authorize \/ DataTransfer \/ DiagnosticsStatus \/ FirmwareStatus)

\* C22: Authorize, DataTransfer, DiagnosticsStatusNotification and
\* FirmwareStatusNotification leave charge points, connectors, transactions and
\* meter values unchanged, and Authorize and DataTransfer confirm with status
\* Accepted for every idTag and vendorId
C22_AuditOnlyHandlers ==
  [][~AuditOnlyStep
       \/ /\ UNCHANGED << charge_points, connectors, transactions, meter_values >>
          /\ confirmation'.err = "nil"
          /\ confirmation'.action = "Authorize" => confirmation'.conf.idTagInfo.status = "Accepted"
          /\ confirmation'.action = "DataTransfer" => confirmation'.conf.status = "Accepted"]_vars

\* an Authorize for a tag the system has never seen was logged and confirmed
\* Accepted
C22_Witness ==
  /\ confirmation.action = "Authorize"
  /\ confirmation.conf.idTagInfo.status = "Accepted"
  /\ \E i \in 1..Len(ocpp_messages) :
       /\ ocpp_messages[i].action = "Authorize"
       /\ ocpp_messages[i].message_type = "Request"
       /\ ocpp_messages[i].payload.jsonString.jsonObject.idTag = "UNKNOWN-TAG"

\* ------------------------------------------------------------------ C23
\* a step is the insert of OnStartTransaction for an id that a stored transaction
\* already has
DuplicateInsertStep ==
  /\ Len(issued') = Len(issued) + 1
  /\ issued'[Len(issued')].id \in DOMAIN transactions

\* C23: the insert of a transaction whose id is already stored fails, and the
\* stored transaction keeps all of its fields
C23_DuplicateInsertFails ==
  [][~DuplicateInsertStep
       \/ /\ ~issued'[Len(issued')].inserted
          /\ transactions' = transactions]_vars

\* two devices were given the same id; the first insert was applied, the second
\* failed, and the stored transaction is the first device's
C23_Witness ==
  \E i \in 1..Len(issued), j \in 1..Len(issued) :
    /\ i < j
    /\ issued[i].id = issued[j].id
    /\ issued[i].cp # issued[j].cp
    /\ issued[i].inserted /\ ~issued[j].inserted
    /\ issued[i].id \in DOMAIN transactions
    /\ transactions[issued[i].id].charge_point_id = issued[i].cp

\* ------------------------------------------------------------------ C24
\* C24: every stored transaction has a (charge point, connector) pair for which
\* a connector row exists
C24_TransactionReferencesConnector ==
  \A id \in DOMAIN transactions :
    <<transactions[id].charge_point_id, transactions[id].connector_id>> \in DOMAIN connectors

\* one transaction is stored, and a StartTransaction for a connector that was
\* never reported was answered with an id and not stored
C24_Witness ==
  /\ DOMAIN transactions # {}
  /\ \E i \in 1..Len(issued) :
       /\ ~issued[i].inserted
       /\ issued[i].id \notin DOMAIN transactions
       /\ <<issued[i].cp, issued[i].request.connectorId>> \notin DOMAIN connectors

\* ------------------------------------------------------------------ C25
\* C25: an id that StartTransaction returned, and whose transaction is stored, is
\* not returned by a later StartTransaction, across restarts of the process too
C25_NoIdIssuedTwice ==
  \A i \in 1..Len(issued), j \in 1..Len(issued) :
    (i < j /\ issued[i].inserted /\ issued[i].id \in DOMAIN transactions)
      => issued[j].id # issued[i].id

\* ------------------------------------------------------------------ C26
\* s is the beginning of t
IsPrefix(s, t) == Len(s) <= Len(t) /\ SubSeq(t, 1, Len(s)) = s

\* C26: meter values and audit entries are append-only: every step of an inbound
\* handler, a connection event or a command leaves each existing row in its place
\* and unchanged
C26_AppendOnly ==
  [][IsPrefix(meter_values, meter_values') /\ IsPrefix(ocpp_messages, ocpp_messages')]_vars

\* two requests were logged and a meter value stored, then the device
\* disconnected and a command to it was refused
C26_Witness ==
  /\ Len(meter_values) > 0
  /\ Len(ocpp_messages) >= 4
  /\ Device \notin connected
  /\ Len(results) > 0
  /\ results[Len(results)].err # "nil"

\* ------------------------------------------------------------------ C27
\* C27: a handler that was started returns its confirmation, whatever the number
\* of samples of its request and whatever the outcome of each of its calls
C27_HandlersTerminate ==
  /\ (pc[Device] = "samples") ~> (pc[Device] = "idle" /\ confirmation.action \in {"MeterValues", "StopTransaction"})
  /\ (pc[Device] \in {"store", "return"}) ~> (pc[Device] = "idle" /\ confirmation.action = "StartTransaction")

\* a MeterValues handler has made the calls for its three samples, none of which
\* was stored
C27_Witness ==
  /\ pc[Device] = "samples"
  /\ Len(local[Device].mvs) = 3
  /\ local[Device].next = 4
  /\ meter_values = << >>

\* ------------------------------------------------------------------ C28
\* in the entries of one device the k-th response answers the k-th request and
\* lies before the next request
AnsweredInOrder(mine) ==
  \A k \in 1..Len(mine) :
    IF k % 2 = 1
    THEN mine[k].message_type = "Request"
    ELSE mine[k].message_type = "Response" /\ mine[k].action = mine[k - 1].action

\* a step in which the handling of a request of device d begins
BeginsRequest(d) == \E i \in 1..Len(Appended) : IsRequestEntry(Appended[i], d)

MalformedCommandStep(cp) ==
  /\ Len(results') = Len(results) + 1
  /\ results'[Len(results')].command \in {"ResetChargePoint", "ChangeAvailability"}
  /\ \/ \E resetType \in ResetTypes \ {"Hard", "Soft"} : ResetChargePoint(cp, resetType)
     \/ \E availabilityType \in AvailabilityTypes \ {"Operative", "Inoperative"} :
          ChangeAvailability(cp, 1, availabilityType)

\* C29: a Reset with a type other than Hard or Soft, and a ChangeAvailability with
\* a type other than Operative or Inoperative, return an error of their own and
\* hand no call to the transport, for a connected device as for an unconnected one
C29_MalformedCommandRejected ==
  [][\A cp \in CPs :
       ~MalformedCommandStep(cp)
         \/ /\ calls' = calls
            /\ results'[Len(results')].cp = cp
            /\ results'[Len(results')].err \in {"invalid reset type", "invalid availability type"}]_vars

\* a Reset with a malformed type for a connected device was refused, and no call
\* was made for it
C29_Witness ==
  \E i \in 1..Len(results) :
    /\ results[i].err = "invalid reset type"
    /\ results[i].wasConnected
    /\ CallsOf(i) = {}

\* ------------------------------------------------------------------ C30
\* the registration status of d in table tbl, "" when d has no record
RegistrationStatus(tbl, d) ==
  IF d \in DOMAIN tbl THEN tbl[d].registration_status ELSE ""

\* C30: the registration status of every charge point is Pending or Accepted;
\* a BootNotification confirms with Accepted and stores nothing but Accepted; a
\* step that stores Pending is a Connect
C30_RegistrationStatus ==
  /\ [](\A d \in DOMAIN charge_points :
          charge_points[d].registration_status \in {"Pending", "Accepted"})
  /\ [][\A request \in BootRequests :
          ~BootStep(Device, request)
            \/ /\ confirmation'.conf.status = "Accepted"
               /\ RegistrationStatus(charge_points', Device)
                    \in {"Accepted", RegistrationStatus(charge_points, Device)}]_vars
  /\ [][\A d \in CPs :
          (RegistrationStatus(charge_points', d) = "Pending"
             /\ RegistrationStatus(charge_points, d) # "Pending") => ConnectStep(d)]_vars

\* a device that had booted is Pending again: a Connect whose lookup failed stored
\* the minimal record over the Accepted one
C30_Witness ==
  /\ confirmation.action = "BootNotification"
  /\ confirmation.conf.status = "Accepted"
  /\ Device \in DOMAIN charge_points
  /\ charge_points[Device].registration_status = "Pending"

\* ------------------------------------------------------------------ C31
\* C31: every transaction id that a StartTransaction confirmation returned names
\* a stored transaction, InProgress or Completed, with the idTag, connectorId and
\* meterStart of that request
C31_IssuedIdsAreStored ==
  \A i \in 1..Len(issued) :
    /\ issued[i].id \in DOMAIN transactions
    /\ LET tx == transactions[issued[i].id]
       IN /\ tx.status \in {"InProgress", "Completed"}
          /\ tx.charge_point_id = issued[i].cp
          /\ tx.id_tag = issued[i].request.idTag
          /\ tx.connector_id = issued[i].request.connectorId
          /\ tx.meter_start = issued[i].request.meterStart

\* ------------------------------------------------------------------ C32
\* the rows that belong to device b: its charge point, its connectors, the
\* transactions it started
RowsOf(b) ==
  << IF b \in DOMAIN charge_points THEN << charge_points[b] >> ELSE << >>,
     [k \in {x \in DOMAIN connectors : x[1] = b} |-> connectors[k]],
     [id \in {x \in DOMAIN transactions : transactions[x].charge_point_id = b}
        |-> transactions[id]] >>

\* C32: a step that changes a row of device b is an inbound action of b itself; a
\* StopTransaction that device a sends with the id of a transaction of b leaves that
\* transaction as it was
C32_OtherDevicesRowsUntouched ==
  [][\A b \in CPs : (RowsOf(b)' # RowsOf(b)) => confirmation'.cp = b]_vars

\* ------------------------------------------------------------------ C33
\* C33: a charge point that is Accepted stays Accepted, and a stored vendor or
\* model is never replaced by "Unknown", also by a Connect whose lookup of the
\* record failed
C33_AcceptedRecordKept ==
  [][\A d \in DOMAIN charge_points :
       /\ d \in DOMAIN charge_points'
       /\ charge_points[d].registration_status = "Accepted"
            => charge_points'[d].registration_status = "Accepted"
       /\ charge_points[d].vendor # "Unknown" => charge_points'[d].vendor # "Unknown"
       /\ charge_points[d].model # "Unknown" => charge_points'[d].model # "Unknown"]_vars

\* =============== the connection handlers of one device, store call by store call
\* handleNewChargePoint up to the return of GetChargePoint: the record it is
\* going to save
handleNewChargePoint_get(d, okGet) ==
  LET found == okGet /\ d \in DOMAIN charge_points
      chargePoint ==
        IF ~found
        THEN [ id |-> d, vendor |-> "Unknown", model |-> "Unknown",
               serialNumber |-> "", firmwareVersion |-> "",
               lastHeartbeat |-> ZeroTime, registrationStatus |-> "Pending",
               isConnected |-> TRUE, connectedSince |-> now ]
        ELSE [GetChargePoint(charge_points, d) EXCEPT
                !.isConnected = TRUE, !.connectedSince = now]
  IN /\ connecting[d] = << >>
     /\ connecting' = [connecting EXCEPT ![d] = << chargePoint >>]
     /\ connected' = connected \cup {d}
     /\ UNCHANGED << storeVars, now, confirmation, lastEvent, txnVars, dispatchVars >>

\* handleNewChargePoint from its SaveChargePoint call to its return
handleNewChargePoint_save(d, okSave) ==
  /\ connecting[d] # << >>
  /\ charge_points' = IF okSave THEN SaveChargePoint(charge_points, connecting[d][1], now)
                                ELSE charge_points
  /\ connecting' = [connecting EXCEPT ![d] = << >>]
  /\ lastEvent' = [lastEvent EXCEPT ![d] =
                     [event |-> IF lastEvent[d].event = "other" THEN "Connect"
                                                                ELSE "ConnectAgain",
                      applied |-> okSave]]
  /\ UNCHANGED << connectors, transactions, meter_values, ocpp_messages, now,
                  connected, confirmation, txnVars, dispatchVars >>

\* OnBootNotification up to its SaveChargePoint call: the record it is going to save
OnBootNotification_begin(d, request) ==
  LET chargePoint ==
        [ id |-> d, vendor |-> request.chargePointVendor,
          model |-> request.chargePointModel,
          serialNumber |-> request.chargePointSerialNumber,
          firmwareVersion |-> request.firmwareVersion,
          lastHeartbeat |-> now, registrationStatus |-> "Accepted",
          isConnected |-> TRUE, connectedSince |-> now ]
  IN /\ Idle(d)
     /\ d \in connected
     /\ pc' = [pc EXCEPT ![d] = "boot"]
     /\ local' = [local EXCEPT ![d] = [action |-> "BootNotification",
                                       chargePoint |-> chargePoint]]
     /\ UNCHANGED << storeVars, now, connected, confirmation, lastEvent,
                     lastTransactionID, issued, dispatchVars, connecting >>

\* OnBootNotification from its SaveChargePoint call to its return
OnBootNotification_save(d, okSave) ==
  LET conf == [currentTime |-> now, interval |-> HeartbeatInterval, status |-> "Accepted"]
  IN /\ pc[d] = "boot"
     /\ charge_points' = IF okSave THEN SaveChargePoint(charge_points, local[d].chargePoint, now)
                                   ELSE charge_points
     /\ confirmation' = HandlerReturn(d, "BootNotification", conf, okSave)
     /\ lastEvent' = [lastEvent EXCEPT ![d] = OtherEvent]
     /\ pc' = [pc EXCEPT ![d] = "idle"]
     /\ local' = [local EXCEPT ![d] = [none |-> TRUE]]
     /\ UNCHANGED << connectors, transactions, meter_values, ocpp_messages, now,
                     connected, lastTransactionID, issued, dispatchVars, connecting >>

\* one device, a store that answers every call: only the order of the calls varies
ConnectGet == handleNewChargePoint_get(Device, TRUE)

ConnectSave == handleNewChargePoint_save(Device, TRUE)

BootBegin == \E request \in BootRequests : OnBootNotification_begin(Device, request)

BootSave == OnBootNotification_save(Device, TRUE)

Hangup == Device \in connected /\ handleChargePointDisconnected(Device, TRUE)

NextConnect == ConnectGet \/ ConnectSave \/ BootBegin \/ BootSave \/ Hangup \/ Tick

SpecConnect == Init /\ [][NextConnect]_vars

\* ------------------------------------------------------------------ C34
\* the identity fields and the registration status of a stored row
Identity(row) == << row.vendor, row.model, row.serial_number, row.firmware_version,
                    row.registration_status >>

\* C34: the Connect handler of d, run concurrently with a BootNotification of
\* d, loses no update: the write that ends the Connect handler leaves vendor,
\* model, serial number, firmware version and registrationStatus of d's stored
\* record as they are, so that they are the BootNotification's once both have
\* finished, in every interleaving
C34_ConnectLosesNoBootUpdate ==
  [][\A d \in CPs :
       (connecting[d] # << >> /\ connecting'[d] = << >> /\ d \in DOMAIN charge_points)
         => Identity(charge_points'[d]) = Identity(charge_points[d])]_vars

\* ------------------------------------------------------------------ C35
\* no handler of d has a store write outstanding
Quiet(d) == connecting[d] = << >> /\ pc[d] = "idle"

\* C35: while d is disconnected and every write of its earlier events has been
\* applied, the stored isConnected of d is false
C35_DisconnectedWhenQuiet ==
  \A d \in CPs :
    (d \notin connected /\ Quiet(d) /\ d \in DOMAIN charge_points)
      => charge_points[d].is_connected = FALSE

\* ---------------- one device stops its transactions, each request audited
\* the audit log keeps the StopTransaction requests handled, in order
RestopReport == \E request \in StatusRequests :
  OnStatusNotification(Device, request, FALSE, TRUE, FALSE)

RestopStartLoad == \E request \in StartRequests : OnStartTransaction_load(Device, request, FALSE)

RestopStartStore == OnStartTransaction_store(Device)

RestopStartReturn == OnStartTransaction_return(Device, TRUE, FALSE)

RestopStop == \E request \in StopRequests, okUpdate \in BOOLEAN :
  /\ Len(ocpp_messages) <= MaxRows
  /\ OnStopTransaction(Device, request, TRUE, okUpdate,
                       [i \in 1..Len(Samples(request.transactionData)) |-> TRUE], FALSE)

NextRestop == RestopReport \/ RestopStartLoad \/ RestopStartStore \/ RestopStartReturn
                \/ RestopStop

SpecRestop == InitTx /\ [][NextRestop]_vars

\* ------------------------------------------------------------------ C36
\* the transaction that request names is stored and Completed
NamesCompleted(request) ==
  /\ request.transactionId \in DOMAIN transactions
  /\ transactions[request.transactionId].status = "Completed"

\* the row, end_time and meter_stop replaced by the request's
Restopped(row, request) ==
  [row EXCEPT !.end_time = NotNull(request.timestamp),
              !.meter_stop = NotNull(request.meterStop)]

\* a step is OnStopTransaction(Device, request), its request audited; okUpdate
\* tells whether the store applied the update
RestopStep(request, okUpdate) ==
  /\ confirmation'.action = "StopTransaction"
  /\ OnStopTransaction(Device, request, TRUE, okUpdate,
                       [i \in 1..Len(Samples(request.transactionData)) |-> TRUE], FALSE)

StopRequestOf(e) == e.payload.jsonString.jsonObject

sendResponse(message) == [status |-> 200, success |-> TRUE, text |-> message]

sendErrorResponse(message, statusCode) ==
  [status |-> statusCode, success |-> FALSE, text |-> message]

\* a handler that reports the command as sent whatever the Dispatcher returned
ResetAnswerAlwaysSent(err) == sendResponse("Reset command sent")

\* Handler.Reset after h.cpms.ResetChargePoint returned err
ResetAnswer(err) ==
  IF err # "nil" THEN sendErrorResponse("Failed to reset charge point", 500)
                 ELSE sendResponse("Reset command sent")

\* the number of Dispatcher calls the REST handler has answered for
RestAnswered == IF confirmation = NoConfirmation THEN 0 ELSE confirmation.conf.invocation

\* a Handler.Reset is between the return of the Dispatcher and its answer
RestPending == RestAnswered < Len(results)

\* the answer of Handler.Reset goes out
RestReply(id, answer) ==
  /\ confirmation' = [cp |-> id, action |-> "Reset",
                      conf |-> [invocation |-> Len(results), answer |-> answer],
                      err |-> "nil"]
  /\ UNCHANGED << storeVars, now, connected, lastEvent, txnVars, dispatchVars, connecting >>

\* Handler.Reset up to the return of h.cpms.ResetChargePoint: a request that
\* fails its checks is answered 400 and the Dispatcher is not called
HandlerReset_call(id, type) ==
  /\ ~RestPending
  /\ IF id = "" THEN RestReply(id, sendErrorResponse("Charge point ID is required", 400))
     ELSE IF type \notin {"Hard", "Soft"}
          THEN RestReply(id, sendErrorResponse("Type must be 'Hard' or 'Soft'", 400))
          ELSE ResetChargePoint(id, type)

\* Handler.Reset from the return of h.cpms.ResetChargePoint to its answer
HandlerReset_answer ==
  /\ RestPending
  /\ RestReply(results[Len(results)].cp, ResetAnswer(results[Len(results)].err))

RestReset == \E id \in CPs \cup {""}, type \in ResetTypes : HandlerReset_call(id, type)

RestAnswer == HandlerReset_answer

NextRest == Attach \/ Detach \/ RestReset \/ RestAnswer \/ Confirmed \/ Failed

SpecRest == Init /\ [][NextRest]_vars

\* ------------------------------------------------------------------ C37
\* the REST handler has answered for a call of the Dispatcher
RestAnsweredCall == confirmation # NoConfirmation /\ confirmation.conf.answer.status # 400

\* C37: a Dispatcher command that the transport accepted has returned while its
\* call is outstanding; the REST command path answers success ("Reset command
\* sent") when the Dispatcher call returned no error and failure when it returned
\* an error, and what the device does with the call afterwards changes neither
\* the returned error nor the answer
C37_AnswerFollowsDispatcherReturn ==
  /\ [](RestAnsweredCall =>
          LET result == results[confirmation.conf.invocation]
              answer == confirmation.conf.answer
          IN /\ answer.success <=> result.err = "nil"
             /\ answer.success => answer = sendResponse("Reset command sent")
             /\ ~answer.success => answer.status = 500)
  /\ [][(Len(results') > Len(results) /\ results'[Len(results')].err = "nil")
           => /\ \E k \in 1..Len(calls') : /\ calls'[k].invocation = Len(results')
                                            /\ calls'[k].state = "pending"
              /\ results'[Len(results')].callbacks = 0]_vars
  /\ [][(calls' # calls /\ Len(results') = Len(results))
           => /\ confirmation' = confirmation
              /\ \A i \in 1..Len(results) : results'[i].err = results[i].err]_vars

\* the REST handler answered "Reset command sent" and the transport gave the call
\* up afterwards: the device never answered
C37_Witness ==
  /\ RestAnsweredCall
  /\ confirmation.conf.answer = sendResponse("Reset command sent")
  /\ \E k \in 1..Len(calls) :
       /\ calls[k].invocation = confirmation.conf.invocation
       /\ calls[k].state = "failed"
  /\ results[confirmation.conf.invocation].logged = "request failed"

\* ------------------------------------------------------------------ C38
\* json.Unmarshal of a stored payload, once: the fields of an object, the text
\* of a string literal
JsonDecode(encoded) ==
  IF "jsonObject" \in DOMAIN encoded THEN encoded.jsonObject ELSE [text |-> encoded.jsonString]

\* C38: decoding the payload of an audit entry once yields the fields of the
\* message, not a text to decode again
C38_PayloadStoredVerbatim ==
  \A i \in 1..Len(ocpp_messages) : DOMAIN JsonDecode(ocpp_messages[i].payload) # {"text"}

====
